---- MODULE Spec2Model ----
(***************************************************************************)
(* mongo-bench: FixedCount runs of DocCountTestingStrategy.runTest          *)
(* (docs_testing_strategy.go) against a collection reached through          *)
(* CollectionAPI, with the key fetch of fetchDocumentIDs.                   *)
(*                                                                         *)
(* Keys (_id values) are integers: a positive key is a primitive.ObjectID,  *)
(* a negative key is an _id of another type (the range-partitioned variant  *)
(* of the tool writes int64 ids), which fetchDocumentIDs skips.             *)
(* Workers are numbered 0..Threads-1 as in the code; partitions is a        *)
(* function from worker number to the worker's list of keys.                *)
(*                                                                         *)
(* Further specifications over the same variables: SpecDoc (the insertdoc   *)
(* run with index creation), SpecFetch (the ordered-batch branch of         *)
(* fetchSampledDocIDs), SpecDur and FairSpecDur (DurationTestingStrategy),  *)
(* SpecReport (the reporting goroutine and main appending to records).      *)
(***************************************************************************)
EXTENDS Integers, Sequences, FiniteSets, TLC

\* ---------------------------------------------------------------- bounds
MaxThreads == 2
MaxDocCount == 3
MaxInitDocs == 2
MaxTicks == 1
MaxErrors == 1
MaxExternal == 1
MaxEstimateOff == 1
MaxBatchSize == 2
MaxRounds == 4
ChanCap == 1
SmallLimit == 0
MaxDuration == 2
MaxDurCalls == 2

\* numTags := Intn(TagsSpan) + MinTags, with 3 and 4 in the source.
TagsSpan == 2
MinTags == 1

\* numCoAuthors := Intn(CoAuthorsSpan) + MinCoAuthors, with 3 and 1 in the source.
CoAuthorsSpan == 1
MinCoAuthors == 1

\* The content has ContentMin + Intn(ContentSpan) bytes, with 2000 and 3000 in
\* the source.
ContentMin == 3
ContentSpan == 2

\* Most keys the fetch task sends in one run.
MaxEmit == 3

\* The docCount of the run-all invocation.
RunAllDocs == 2

\* Most documents present before a run-all invocation.
MaxRunAllInit == 1

TestTypes == {"insert", "update", "delete", "upsert"}

VARIABLES
  collection,   \* keys of the documents stored in benchmarking.testdata
  nextId,       \* source of fresh ObjectIDs (primitive.NewObjectID)
  script,       \* kinds of the runs still to be started, one after the other
  pc,           \* "idle", "running", "joined", "done", "saved", "fatal", "crashed"
  testType,     \* operation kind of the current run
  config,       \* TestingConfig: Threads, DocCount, DropDb
  docIDs,       \* source list the partitions are built from
  partitions,   \* [0..Threads-1 -> Seq(key)]
  idx,          \* [0..Threads-1 -> items the worker's range loop has taken]
  insertRate,   \* count of the run's meter
  ticks,        \* counts read by the once-per-second reporting goroutine
  final,        \* count of the final record, -1 before it is taken
  stats,        \* gateway calls of the run, by method and by outcome
  targeted,     \* [0..Threads-1 -> keys the worker has used in a filter]
  collAtStart,  \* collection when the run's workers were launched
  extDeleted,   \* keys removed by another client of the store during the run
  prev,         \* what the previous run of the script was and how it ended
  setupErr,     \* setup step of the run that returned an error, or "none"
  records,      \* the run's in-memory rows: header, per-second rows, final row
  files,        \* [operation kind -> rows of benchmark_results_<kind>.csv], <<>> = no file
  creates,      \* os.Create calls of the run
  dropCalls,    \* Drop calls of the run
  tickLocal,    \* reporting goroutine inside records = append(records, record)
  mainLocal,    \* main goroutine inside records = append(records, finalRecord)
  now,          \* time.Now() in seconds
  endTime,      \* deadline of a Duration run
  wpc,          \* [worker -> position in the Duration loop]
  observed,     \* [worker -> clock value its last deadline check read]
  late,         \* [worker -> calls started before and completed at or after endTime]
  estimatedCount, \* result of EstimatedDocumentCount
  batchSize,    \* batch size of the ordered-batch fetch
  totalFetched, \* keys the fetch has sent
  lastID,       \* last key sent, 0 = the zero ObjectID
  cursor,       \* documents of the open cursor not yet delivered
  docIDChannel, \* keys sent on the channel and not yet received
  emitted,      \* every key sent on the channel, in order
  rounds,       \* Find calls of the fetch
  fpc,          \* "idle", "loop", "scan", "closed"
  assigned,     \* fetched keys the partitioning loop has dealt out so far
  gtags,        \* DocumentGenerator.tags, in the order its array holds now
  gauthors,     \* DocumentGenerator.authors, in the order its array holds now
  richDoc,      \* the document GenerateComplex returned last
  sharedDoc,    \* var doc interface{}: the document assigned last, by any worker
  wstep,        \* per worker: "gen" before doc is assigned, "call" before InsertOne
  passed,       \* per worker: the document its last InsertOne was given
  dist,         \* the distributor goroutine: position, key in hand, keys sent, channels closed
  partitionChannels, \* per worker: the keys buffered in its channel
  closed,       \* close calls per channel (-1 is docIDChannel)
  lateSends,    \* sends on a channel that was closed before
  wk,           \* per worker of the channel workload: position and key in hand
  received,    \* per worker: the keys its gateway calls were made for, in order
  strategies,   \* branches of fetchSampledDocIDs that have run in the fetch under way
  qgen          \* the QueryGenerator: queryType, useIndex, useIndexFT, filters returned

baseVars == <<collection, nextId, script, pc, testType, config, docIDs, partitions, idx,
              insertRate, ticks, final, stats, targeted, collAtStart, extDeleted,
              prev, setupErr, records, files, creates, dropCalls>>

raceVars == <<tickLocal, mainLocal>>

durVars == <<now, endTime, wpc, observed, late>>

fetchVars == <<estimatedCount, batchSize, totalFetched, lastID, cursor, docIDChannel,
               emitted, rounds, fpc>>

pipeVars == <<dist, partitionChannels, closed, lateSends, wk, received>>

extraVars == <<assigned, gtags, gauthors, richDoc, sharedDoc, wstep, passed, pipeVars,
               strategies, qgen>>

vars == <<baseVars, raceVars, durVars, fetchVars, extraVars>>

\* ------------------------------------------------------ DocumentGenerator
\* NewDocumentGenerator: the tag pool and the author pool, cut to their first
\* entries.
TagPool == <<"MongoDB", "Benchmark", "CMS", "Database">>

AuthorPool == <<"Alice Example", "John Doe", "Maria Sample">>

\* Lengths of the words generateLoremIpsum strings together (scaled).
WordLens == {2, 3}

\* No document has been generated yet.
NoDoc == [made |-> FALSE, numTags |-> 0, numCoAuthors |-> 0, content |-> 0]

\* rnd.Intn(n): one of 0 .. n-1.
Intn(n) == 0 .. (n - 1)

\* A draw of len(list) elements with replacement.
ShuffleWithRepeats(list) == [1 .. Len(list) -> {list[i] : i \in 1 .. Len(list)}]

\* rnd.Shuffle(len(list), swap): the list in any order, in place.
Shuffle(list) ==
  {[i \in 1 .. Len(list) |-> list[f[i]]] : f \in Permutations(1 .. Len(list))}

\* Lengths the text of generateLoremIpsum can have when its loop ends: a word
\* and a blank are appended while len(text) < minLen.
RECURSIVE TextLengths(_, _)
TextLengths(len, minLen) ==
  IF len >= minLen
    THEN {len}
    ELSE UNION {TextLengths(len + w + 1, minLen) : w \in WordLens}

\* return text[:minLen]
Truncate(len, minLen) == minLen

\* generateLoremIpsum(minLen): the lengths of the strings it can return.
generateLoremIpsum(minLen) == {Truncate(l, minLen) : l \in TextLengths(0, minLen)}

\* var doc interface{} before any worker has assigned it.
NoShared == [by |-> -1, item |-> 0]

\* ------------------------------------------------------------- helpers
Min(a, b) == IF a < b THEN a ELSE b

IsObjectID(k) == k > 0

SetMin(S) == CHOOSE x \in S : \A y \in S : x <= y

RECURSIVE SortedSeq(_)
SortedSeq(S) == IF S = {} THEN <<>> ELSE <<SetMin(S)>> \o SortedSeq(S \ {SetMin(S)})

Keys(seq) == {seq[i] : i \in 1 .. Len(seq)}

Workers == 0 .. (config.Threads - 1)

NoStats == [InsertOne |-> 0, UpdateOne |-> 0, DeleteOne |-> 0, Find |-> 0,
            upsertOpt |-> 0, ok |-> 0, err |-> 0, deleted |-> 0, nomatch |-> 0,
            marks |-> 0, rows |-> 0]

\* The run that has just ended, as the next run of the script finds it.
RunSummary == [testType |-> testType, DocCount |-> config.DocCount,
               Threads |-> config.Threads, startedEmpty |-> collAtStart = {}, errors |-> stats.err,
               completed |-> pc = "saved"]

NoRun == [testType |-> "none", DocCount |-> 0, Threads |-> 1, startedEmpty |-> FALSE, errors |-> 0,
          completed |-> FALSE]

\* ------------------------------------------------ fetchDocumentIDs (key fetch)
\* FindDocs with the limit dropped: every document of the collection.
FindDocsUnlimited(coll, limit) == {coll}

\* Find(bson.M{}, projection _id, SetLimit(limit)) when limit > 0, otherwise the
\* unlimited scan: the documents the cursor delivers.
FindDocs(coll, limit) ==
  IF limit > 0
    THEN {S \in SUBSET coll : Cardinality(S) = Min(limit, Cardinality(coll))}
    ELSE {coll}

\* SampleDocs with the sample size ignored.
SampleDocsUnlimited(coll, limit) == {coll}

\* Aggregate($sample size limit) when limit > 0, otherwise the unlimited scan.
SampleDocs(coll, limit) ==
  IF limit > 0
    THEN {S \in SUBSET coll : Cardinality(S) = Min(limit, Cardinality(coll))}
    ELSE {coll}

\* The cursor loop with every record appended, whatever its _id.
DecodeAll(S) == SortedSeq(S)

\* The cursor loop: a record whose _id is no ObjectID is skipped.
DecodeIDs(S) == SortedSeq({k \in S : IsObjectID(k)})

\* The lists fetchDocumentIDs can return without error.
fetchDocumentIDs(coll, limit, tt) ==
  IF tt = "update"
    THEN {DecodeIDs(S) : S \in SampleDocs(coll, limit)}
    ELSE {DecodeIDs(S) : S \in FindDocs(coll, limit)}

\* ------------------------------------------------------------ partitioning
\* PartitionIndex off by one: partitions[(i+1)%threads].
PartitionIndexShifted(i, t) == (i + 1) % t

\* partitions[i%threads]
PartitionIndex(i, t) == i % t

\* make([][]primitive.ObjectID, threads)
MakePartitions(t) == [p \in 0 .. (t - 1) |-> <<>>]

\* FillPartitions reading ids[i/threads] instead of ids[i].
RECURSIVE FillPartitionsStale(_, _, _, _)
FillPartitionsStale(parts, ids, i, t) ==
  IF i >= Len(ids)
    THEN parts
    ELSE FillPartitionsStale([parts EXCEPT ![i % t] = Append(@, ids[(i \div t) + 1])],
                             ids, i + 1, t)

\* for i, id := range ids { partitions[i%threads] = append(partitions[i%threads], id) }
\* from source index i on (i counts from 0, ids[i + 1] is the code's ids[i]).
RECURSIVE FillPartitions(_, _, _, _)
FillPartitions(parts, ids, i, t) ==
  IF i >= Len(ids)
    THEN parts
    ELSE FillPartitions([parts EXCEPT ![PartitionIndex(i, t)] = Append(@, ids[i + 1])],
                        ids, i + 1, t)

\* FreshIDs with the loop bound off by one: i < docCount-1.
FreshIDsShort(first, n) == [i \in 1 .. (n - 1) |-> first + i - 1]

\* for i := 0; i < docCount; i++ { ... primitive.NewObjectID() }
FreshIDs(first, n) == [i \in 1 .. n |-> first + i - 1]

\* docID := docIDs[random.RandomIntn(len(docIDs))], once per i < len(docIDs):
\* the lists of keys the update branch can append, in the order of i.
RandomPicks(ids) ==
  {[i \in 1 .. Len(ids) |-> ids[f[i]]] : f \in [1 .. Len(ids) -> 1 .. Len(ids)]}

\* Drop is called for insert and upsert whatever config.DropDb says.
DropsCollectionIgnoringFlag(tt, drop) == tt \in {"insert", "upsert"}

\* Drop is called for insert and upsert when config.DropDb is set.
DropsCollection(tt, drop) == tt \in {"insert", "upsert"} /\ drop

\* The later runTest also drops for insertdoc when config.DropDb is set.
DropsCollectionDoc(tt, drop) == tt = "insertdoc" /\ drop

\* Drop calls the setup of a FixedCount run of kind tt makes: one call in the
\* branch that drops, failed or not, and none anywhere else.
DropCallsOf(tt, drop) ==
  IF DropsCollection(tt, drop) \/ DropsCollectionDoc(tt, drop) THEN 1 ELSE 0

\* Duration runTest: if testType == "insert" { collection.Drop(...) }.
DurDrop(tt, drop) == tt = "insert"

\* Drop calls the setup of a Duration run of kind tt makes.
DurDropCalls(tt, drop) == IF DurDrop(tt, drop) THEN 1 ELSE 0

\* ---------------------------------------------------------------- history
\* Operation kinds a result file benchmark_results_<kind>.csv is named after.
FileKinds == TestTypes \cup {"insertdoc"}

\* records = append(records, []string{"t", "count", "mean", "m1_rate", ...}).
\* A row carries its cells and, as a tag outside the cells, who appended it.
HeaderRow ==
  [src |-> "header",
   cells |-> <<"t", "count", "mean", "m1_rate", "m5_rate", "m15_rate", "mean_rate">>]

\* record := []string{timestamp, count, mean, m1Rate, m5Rate, m15Rate}: the same
\* six cells in the reporting goroutine and in the final recording.  A rate
\* cell is named after the meter query that filled it.
Record(src, t, count) ==
  [src |-> src, cells |-> <<t, count, "RateMean", "Rate1", "Rate5", "Rate15">>]

\* csv.Writer.WriteAll writes the rows as they are, one line per row and one
\* field per cell; it neither pads nor checks the number of fields.
WriteAll(rows) == rows

\* The append a goroutine is inside of: nothing.
NoLocal == <<>>

\* What a step of a FixedCount run leaves alone.
FixedCountFrame == UNCHANGED <<raceVars, durVars, fetchVars, extraVars>>

\* log.Fatalf after a failed setup call, with a log.Printf in its place: the
\* run goes on.
AfterSetupErrorLogged == "running"

\* log.Fatalf after a failed setup call: os.Exit(1).
AfterSetupError == "fatal"

\* ------------------------------------------------------------------ setup
\* The state in which the workers are launched: a fresh meter, the ticker
\* started, wg.Add(threads), one goroutine per partition.
LaunchWith(tt, cfg, coll, ids, parts, nid, serr) ==
  /\ pc' = "running"
  /\ setupErr' = serr
  /\ records' = <<HeaderRow>>
  /\ creates' = 0
  /\ dropCalls' = DropCallsOf(tt, cfg.DropDb)
  /\ UNCHANGED files
  /\ script' = Tail(script)
  /\ testType' = tt
  /\ config' = cfg
  /\ collection' = coll
  /\ collAtStart' = coll
  /\ nextId' = nid
  /\ docIDs' = ids
  /\ partitions' = parts
  /\ idx' = [w \in 0 .. (cfg.Threads - 1) |-> 0]
  /\ targeted' = [w \in 0 .. (cfg.Threads - 1) |-> {}]
  /\ insertRate' = 0
  /\ ticks' = <<>>
  /\ final' = -1
  /\ stats' = NoStats
  /\ extDeleted' = {}
  /\ prev' = RunSummary

Launch(tt, cfg, coll, ids, parts, nid) == LaunchWith(tt, cfg, coll, ids, parts, nid, "none")

\* The next run of the script may start as soon as the previous one has
\* appended its final record.
CanStartBeforeSave(tt) == pc \in {"idle", "done", "saved"} /\ script # <<>> /\ Head(script) = tt

\* The next run of the script may start: the first one, or the one after a run
\* that has completed.
CanStart(tt) == pc \in {"idle", "saved"} /\ script # <<>> /\ Head(script) = tt

Configs == [Threads : 1 .. MaxThreads, DocCount : 0 .. MaxDocCount, DropDb : BOOLEAN]

\* case "insert", "upsert": docCount fresh ids dealt round-robin, no fetch.
StartInsertOrUpsert ==
  \E tt \in {"insert", "upsert"}, cfg \in Configs :
       /\ CanStart(tt)
       /\ LET coll == IF DropsCollection(tt, cfg.DropDb) THEN {} ELSE collection
              ids  == FreshIDs(nextId, cfg.DocCount)
          IN  Launch(tt, cfg, coll, ids,
                     FillPartitions(MakePartitions(cfg.Threads), ids, 0, cfg.Threads),
                     nextId + cfg.DocCount)
       /\ FixedCountFrame

\* case "delete": the fetched ids dealt round-robin.
StartDelete ==
  /\ CanStart("delete")
  /\ \E cfg \in Configs :
       \E ids \in fetchDocumentIDs(collection, cfg.DocCount, "delete") :
         Launch("delete", cfg, collection, ids,
                FillPartitions(MakePartitions(cfg.Threads), ids, 0, cfg.Threads),
                nextId)
  /\ FixedCountFrame

\* case "update": len(docIDs) random picks from the fetched ids dealt round-robin.
StartUpdate ==
  /\ CanStart("update")
  /\ \E cfg \in Configs :
       \E ids \in fetchDocumentIDs(collection, cfg.DocCount, "update") :
         \E picks \in RandomPicks(ids) :
           Launch("update", cfg, collection, ids,
                  FillPartitions(MakePartitions(cfg.Threads), picks, 0, cfg.Threads),
                  nextId)
  /\ FixedCountFrame

\* log.Fatalf on a failed Drop or a failed fetchDocIDs: the process exits before
\* the meter, the ticker and the workers exist.
SetupFatal ==
  \E tt \in TestTypes, cfg \in Configs :
       /\ CanStart(tt)
       /\ DropsCollection(tt, cfg.DropDb) \/ tt \in {"update", "delete"}
       /\ pc' = AfterSetupError
       /\ setupErr' = IF tt \in {"update", "delete"} THEN "fetch" ELSE "drop"
       /\ records' = <<>>
       /\ creates' = 0
       /\ dropCalls' = DropCallsOf(tt, cfg.DropDb)
       /\ script' = Tail(script)
       /\ testType' = tt
       /\ config' = cfg
       /\ docIDs' = <<>>
       /\ partitions' = MakePartitions(cfg.Threads)
       /\ idx' = [w \in 0 .. (cfg.Threads - 1) |-> 0]
       /\ targeted' = [w \in 0 .. (cfg.Threads - 1) |-> {}]
       /\ insertRate' = 0
       /\ ticks' = <<>>
       /\ final' = -1
       /\ stats' = NoStats
       /\ extDeleted' = {}
       /\ prev' = RunSummary
       /\ collAtStart' = collection
       /\ UNCHANGED <<collection, nextId, files>>
       /\ FixedCountFrame

\* ------------------------------------------------------------- the store
\* What the calls of CollectionAPI do to the key set of the collection.
InsertOne(coll, id) == coll \cup {id}

UpdateOne(coll, k, upsert) ==
  IF k \in coll THEN coll
  ELSE IF upsert THEN coll \cup {k}
  ELSE coll

DeleteOne(coll, k) == coll \ {k}

\* result.DeletedCount of DeleteOne(filter {_id: k})
DeletedCount(coll, k) == IF k \in coll THEN 1 ELSE 0

\* A gateway call may return an error (at most MaxErrors per run in the model).
CallErrors == IF stats.err < MaxErrors THEN BOOLEAN ELSE {FALSE}

\* --------------------------------------------------------------- workers
\* r.RandomIntn(n): rand.Intn returns a value of [0, n) and panics for n <= 0.
RandomIntn(n) == 0 .. (n - 1)

IntnPanics(n) == n <= 0

\* insert, update, upsert: if err == nil { insertRate.Mark(1) }
MarksOnReturn(err) == ~err

\* MarksOnDelete without the DeletedCount test.
MarksOnDeleteAnyCount(err, deletedCount) == ~err

\* delete: err != nil -> continue; if result.DeletedCount > 0 { insertRate.Mark(1) }
MarksOnDelete(err, deletedCount) == ~err /\ deletedCount > 0

\* UpsertOption with the option passed by every UpdateOne call.
UpsertOptionAlways(tt) == TRUE

\* options.Update().SetUpsert(true) is passed in the upsert case only.
UpsertOption(tt) == tt = "upsert"

\* update: partition[r.RandomIntn(len(partition))]
UpdateRange(len) == len

\* The upsert target drawn from the whole partition.
UpsertRangeWhole(len) == len

\* upsert: partition[r.RandomIntn(len(partition)/2)]
UpsertRange(len) == len \div 2

\* DeleteTarget always reading the first key of the partition.
DeleteTargetFirst(partition, i) == partition[1]

\* delete: for _, docID := range partition { filter := bson.M{"_id": docID} },
\* in iteration i (counted from 0).
DeleteTarget(partition, i) == partition[i + 1]

\* The worker's range loop has an item left; the goroutine runs until the
\* process ends.
HasItem(w) == pc \in {"running", "joined", "done"} /\ idx[w] < Len(partitions[w])

Counted(method, err, upsert, mark) ==
  [stats EXCEPT ![method] = @ + 1,
                !.marks = IF mark THEN @ + 1 ELSE @,
                !.upsertOpt = IF upsert THEN @ + 1 ELSE @,
                !.ok = IF err THEN @ ELSE @ + 1,
                !.err = IF err THEN @ + 1 ELSE @]

Frame == UNCHANGED <<script, pc, testType, config, docIDs, partitions, ticks, final,
                     collAtStart, extDeleted, prev, setupErr, records, files, creates, dropCalls,
                     raceVars, durVars, fetchVars, extraVars>>

\* case "insert": the document carries no _id, the driver gives it a fresh one.
InsertCall(w) ==
  \E err \in CallErrors :
       /\ idx' = [idx EXCEPT ![w] = @ + 1]
       /\ collection' = IF err THEN collection ELSE InsertOne(collection, nextId)
       /\ nextId' = IF err THEN nextId ELSE nextId + 1
       /\ stats' = Counted("InsertOne", err, FALSE, MarksOnReturn(err))
       /\ insertRate' = IF MarksOnReturn(err) THEN insertRate + 1 ELSE insertRate
       /\ UNCHANGED targeted

Insert(w) ==
  /\ HasItem(w)
  /\ testType = "insert"
  /\ InsertCall(w)
  /\ Frame

\* UpdateOne on a key drawn from the first n entries of the worker's partition.
UpdateCall(w, n) ==
  \E j \in RandomIntn(n), err \in CallErrors :
    LET randomDocID == partitions[w][j + 1]
        upsert == UpsertOption(testType)
    IN  /\ idx' = [idx EXCEPT ![w] = @ + 1]
        /\ collection' = IF err THEN collection
                         ELSE UpdateOne(collection, randomDocID, upsert)
        /\ stats' = Counted("UpdateOne", err, upsert, MarksOnReturn(err))
        /\ insertRate' = IF MarksOnReturn(err) THEN insertRate + 1 ELSE insertRate
        /\ targeted' = [targeted EXCEPT ![w] = @ \cup {randomDocID}]
        /\ UNCHANGED nextId

\* case "update"
Update(w) ==
  /\ HasItem(w)
  /\ testType = "update"
  /\ ~IntnPanics(UpdateRange(Len(partitions[w])))
  /\ UpdateCall(w, UpdateRange(Len(partitions[w])))
  /\ Frame

\* case "upsert"
Upsert(w) ==
  /\ HasItem(w)
  /\ testType = "upsert"
  /\ ~IntnPanics(UpsertRange(Len(partitions[w])))
  /\ UpdateCall(w, UpsertRange(Len(partitions[w])))
  /\ Frame

\* case "upsert" with len(partition)/2 = 0: rand.Intn(0) panics in the worker
\* goroutine, nothing recovers it, and the process dies.
UpsertPanic(w) ==
  /\ HasItem(w)
  /\ testType = "upsert"
  /\ IntnPanics(UpsertRange(Len(partitions[w])))
  /\ idx' = [idx EXCEPT ![w] = @ + 1]
  /\ pc' = "crashed"
  /\ UNCHANGED <<collection, nextId, script, testType, config, docIDs, partitions,
                 insertRate, ticks, final, stats, targeted, collAtStart, extDeleted,
                 prev, setupErr, records, files, creates, dropCalls>>
  /\ FixedCountFrame

\* case "delete": the filter is the item itself.
Delete(w) ==
  /\ HasItem(w)
  /\ testType = "delete"
  /\ \E err \in CallErrors :
       LET docID == DeleteTarget(partitions[w], idx[w])
           n == IF err THEN 0 ELSE DeletedCount(collection, docID)
       IN  /\ idx' = [idx EXCEPT ![w] = @ + 1]
           /\ collection' = IF err THEN collection ELSE DeleteOne(collection, docID)
           /\ stats' = [Counted("DeleteOne", err, FALSE, MarksOnDelete(err, n)) EXCEPT
                          !.deleted = @ + n,
                          !.nomatch = IF ~err /\ n = 0 THEN @ + 1 ELSE @]
           /\ insertRate' = IF MarksOnDelete(err, n) THEN insertRate + 1 ELSE insertRate
           /\ targeted' = [targeted EXCEPT ![w] = @ \cup {docID}]
           /\ UNCHANGED nextId
  /\ Frame

\* ------------------------------------------------- reporting and completion
\* for range secondTicker.C { count := insertRate.Count(); ... }
\* The goroutine ranges over secondTicker.C until the deferred Stop at the
\* return of runTest, so it also runs between wg.Wait() and the file write.
\* Here the whole iteration is one step: no other access to records overlaps it.
Tick ==
  /\ pc \in {"running", "joined", "done"}
  /\ Len(ticks) < MaxTicks
  /\ ticks' = Append(ticks, insertRate)
  /\ records' = Append(records, Record("tick", Len(ticks) + 1, insertRate))
  /\ UNCHANGED <<collection, nextId, script, pc, testType, config, docIDs, partitions,
                 idx, insertRate, final, stats, targeted, collAtStart, extDeleted,
                 prev, setupErr, files, creates, dropCalls>>
  /\ FixedCountFrame

\* WaitReturns with wg.Add(1) instead of wg.Add(threads): the first wg.Done()
\* releases wg.Wait().
WaitReturnsEarly == \E w \in Workers : idx[w] = Len(partitions[w])

\* wg.Add(threads) and one deferred wg.Done() per worker: wg.Wait() returns
\* once every worker has drained its partition.
WaitReturns == \A w \in Workers : idx[w] = Len(partitions[w])

Join ==
  /\ pc = "running"
  /\ WaitReturns
  /\ pc' = "joined"
  /\ UNCHANGED <<collection, nextId, script, testType, config, docIDs, partitions,
                 idx, insertRate, ticks, final, stats, targeted, collAtStart,
                 extDeleted, prev, setupErr, records, files, creates, dropCalls>>
  /\ FixedCountFrame

\* Final metrics recording: count := insertRate.Count(), and the record is
\* appended to records (as one step: no iteration of the reporting goroutine
\* overlaps the append).
RecordFinal ==
  /\ pc = "joined"
  /\ final' = insertRate
  /\ records' = Append(records, Record("final", Len(ticks), insertRate))
  /\ pc' = "done"
  /\ UNCHANGED <<collection, nextId, script, testType, config, docIDs, partitions,
                 idx, insertRate, ticks, stats, targeted, collAtStart, extDeleted,
                 prev, setupErr, files, creates, dropCalls>>
  /\ FixedCountFrame

\* The file is written from where the workers have just been started.
SavePointBeforeJoin == "running"

\* Where main is when it reaches os.Create: behind wg.Wait() and behind the
\* append of the final record.
SavePoint == "done"

\* os.Create(filename), writer.WriteAll(records), writer.Flush(): the file of the
\* run's operation kind is created (truncated if it exists) and receives the rows.
\* The working directory is taken to be writable.
SaveCSV ==
  /\ pc = SavePoint
  /\ files' = [files EXCEPT ![testType] = WriteAll(records)]
  /\ creates' = creates + 1
  /\ pc' = "saved"
  /\ UNCHANGED <<collection, nextId, script, testType, config, docIDs, partitions,
                 idx, insertRate, ticks, final, stats, targeted, collAtStart,
                 extDeleted, prev, setupErr, records, dropCalls>>
  /\ FixedCountFrame

\* Another client of the store removes a document while the run is going on.
ExternalDelete ==
  /\ pc = "running"
  /\ Cardinality(extDeleted) < MaxExternal
  /\ \E k \in collection :
       /\ collection' = collection \ {k}
       /\ extDeleted' = extDeleted \cup {k}
  /\ UNCHANGED <<nextId, script, pc, testType, config, docIDs, partitions, idx,
                 insertRate, ticks, final, stats, targeted, collAtStart, prev,
                 setupErr, records, files, creates, dropCalls>>
  /\ FixedCountFrame

\* ------------------------------------------------------------ specification
\* Documents present before the first run: ObjectID keys 1..m, and possibly one
\* document whose _id is no ObjectID.
InitCollections ==
  {(1 .. m) \cup bad : m \in 0 .. MaxInitDocs, bad \in {{}, {-1}}}

\* One invocation of mongo-bench with -type insert, update, delete or upsert.
SingleRuns == {<<tt>> : tt \in TestTypes}

\* mongo-bench-entrypoint.sh: an insert run, then a delete run, as two
\* invocations against the same collection.
InsertThenDelete == {<<"insert", "delete">>}

InitWith(scripts) ==
  /\ collection \in InitCollections
  /\ nextId = MaxInitDocs + 1
  /\ script \in scripts
  /\ pc = "idle"
  /\ testType = "none"
  /\ config = [Threads |-> 1, DocCount |-> 0, DropDb |-> FALSE]
  /\ docIDs = <<>>
  /\ partitions = MakePartitions(1)
  /\ idx = [w \in 0 .. 0 |-> 0]
  /\ targeted = [w \in 0 .. 0 |-> {}]
  /\ insertRate = 0
  /\ ticks = <<>>
  /\ final = -1
  /\ stats = NoStats
  /\ collAtStart = collection
  /\ extDeleted = {}
  /\ prev = NoRun
  /\ setupErr = "none"
  /\ records = <<>>
  /\ files = [k \in FileKinds |-> <<>>]
  /\ creates = 0
  /\ dropCalls = 0

\* No reporting goroutine is inside an append.
RaceIdle == tickLocal = NoLocal /\ mainLocal = NoLocal

\* A FixedCount run has no deadline and its workers are in no Duration loop.
DurIdle ==
  /\ now = 0
  /\ endTime = 0
  /\ wpc = <<>>
  /\ observed = <<>>
  /\ late = <<>>

\* fetchSampledDocIDs is not running.
FetchIdle ==
  /\ estimatedCount = 0
  /\ batchSize = 1
  /\ totalFetched = 0
  /\ lastID = 0
  /\ cursor = <<>>
  /\ docIDChannel = <<>>
  /\ emitted = <<>>
  /\ rounds = 0
  /\ fpc = "idle"

\* No QueryGenerator has been constructed.
NoQuery == [queryType |-> 0, useIndex |-> FALSE, useIndexFT |-> FALSE, made |-> FALSE,
            filters |-> <<>>]

\* No partitioning loop is under way.
ExtraIdle ==
  /\ assigned = 0
  /\ gtags = TagPool
  /\ gauthors = AuthorPool
  /\ richDoc = NoDoc
  /\ sharedDoc = NoShared
  /\ wstep = [w \in 0 .. (MaxThreads - 1) |-> "gen"]
  /\ passed = [w \in 0 .. (MaxThreads - 1) |-> NoShared]
  /\ dist = [pc |-> "idle", held |-> 0, i |-> 0, c |-> 0]
  /\ partitionChannels = [w \in 0 .. (MaxThreads - 1) |-> <<>>]
  /\ closed = [c \in -1 .. (MaxThreads - 1) |-> 0]
  /\ lateSends = 0
  /\ wk = [w \in 0 .. (MaxThreads - 1) |-> [pc |-> "idle", held |-> 0]]
  /\ received = [w \in 0 .. (MaxThreads - 1) |-> <<>>]
  /\ strategies = {}
  /\ qgen = NoQuery

Init == InitWith(SingleRuns) /\ RaceIdle /\ DurIdle /\ FetchIdle /\ ExtraIdle

InitSeq == InitWith(InsertThenDelete) /\ RaceIdle /\ DurIdle /\ FetchIdle /\ ExtraIdle

Next ==
  \/ StartInsertOrUpsert
  \/ StartDelete
  \/ StartUpdate
  \/ SetupFatal
  \/ \E w \in Workers : Insert(w)
  \/ \E w \in Workers : Update(w)
  \/ \E w \in Workers : Upsert(w)
  \/ \E w \in Workers : UpsertPanic(w)
  \/ \E w \in Workers : Delete(w)
  \/ Tick
  \/ Join
  \/ RecordFinal
  \/ SaveCSV

Spec == Init /\ [][Next]_vars

\* case "update" of fetchDocumentIDs when the cursor fails after it has
\* delivered some records: cursor.Next returns false, the loop ends, cursor.Err
\* is not consulted and the keys appended so far are returned with a nil
\* error.  runTest goes on with the picks from this shorter list.
StartUpdateCursorError ==
  /\ CanStart("update")
  /\ \E cfg \in Configs :
       \E ids \in fetchDocumentIDs(collection, cfg.DocCount, "update") :
         \E n \in 0 .. (Len(ids) - 1) :
           \E picks \in RandomPicks(SubSeq(ids, 1, n)) :
             LaunchWith("update", cfg, collection, SubSeq(ids, 1, n),
                        FillPartitions(MakePartitions(cfg.Threads), picks, 0,
                                       cfg.Threads),
                        nextId, "cursor")
  /\ FixedCountFrame

\* Update runs whose key fetch may fail, in the call or during the iteration.
NextCursor ==
  \/ StartUpdate
  \/ StartUpdateCursorError
  \/ SetupFatal
  \/ \E w \in Workers : Update(w)
  \/ Tick
  \/ Join
  \/ RecordFinal
  \/ SaveCSV

InitCursor == InitWith({<<"update">>}) /\ RaceIdle /\ DurIdle /\ FetchIdle /\ ExtraIdle

SpecCursor == InitCursor /\ [][NextCursor]_vars

\* Update and delete runs against a store that another client deletes from while
\* the workers are running.
InitEnv == InitWith({<<"update">>, <<"delete">>}) /\ RaceIdle /\ DurIdle /\ FetchIdle /\ ExtraIdle

NextEnv ==
  \/ StartDelete
  \/ StartUpdate
  \/ SetupFatal
  \/ \E w \in Workers : Update(w)
  \/ \E w \in Workers : Delete(w)
  \/ ExternalDelete
  \/ Join
  \/ RecordFinal
  \/ SaveCSV

SpecEnv == InitEnv /\ [][NextEnv]_vars

\* The entrypoint's insert run followed by its delete run.
NextSeq ==
  \/ StartInsertOrUpsert
  \/ StartDelete
  \/ SetupFatal
  \/ \E w \in Workers : Insert(w)
  \/ \E w \in Workers : Delete(w)
  \/ Join
  \/ RecordFinal
  \/ SaveCSV

SpecSeq == InitSeq /\ [][NextSeq]_vars

\* --------------------------------------------------------------- run-all
\* runTestSequence: tests := []string{"insert", "update", "delete", "upsert"}.
RunAllScript == <<"insert", "update", "delete", "upsert">>

\* runTestSequence hands the one config of the invocation to every runTest.
SameConfig ==
  \/ pc = "idle" /\ config'.DocCount = RunAllDocs
  \/ pc # "idle" /\ config' = config

InitAll ==
  /\ InitWith({RunAllScript})
  /\ Cardinality(collection) <= MaxRunAllInit
  /\ RaceIdle
  /\ DurIdle
  /\ FetchIdle
  /\ ExtraIdle

NextAll ==
  \/ StartInsertOrUpsert /\ SameConfig
  \/ StartUpdate /\ SameConfig
  \/ StartDelete /\ SameConfig
  \/ SetupFatal /\ SameConfig
  \/ \E w \in Workers : Insert(w)
  \/ \E w \in Workers : Update(w)
  \/ \E w \in Workers : Delete(w)
  \/ \E w \in Workers : Upsert(w)
  \/ \E w \in Workers : UpsertPanic(w)
  \/ Join
  \/ RecordFinal
  \/ SaveCSV

SpecAll == InitAll /\ [][NextAll]_vars

\* ------------------------------------------------- the rich-insert run
\* TestingConfig with the CreateIndex flag of the insertdoc run.
ConfigsDoc ==
  [Threads : 1 .. MaxThreads, DocCount : 0 .. MaxDocCount, DropDb : BOOLEAN,
   CreateIndex : BOOLEAN]

\* mongoColl.Indexes().CreateMany(ctx, indexes) may fail (the context has a
\* timeout of ten seconds) when it is called at all.
CreateManyErrors(cfg) == IF cfg.CreateIndex THEN BOOLEAN ELSE {FALSE}

\* testType "insertdoc": Drop when DropDb, CreateMany when CreateIndex, whose
\* error is logged with log.Printf, then docCount fresh ids dealt round-robin
\* and the workers.
StartInsertDoc ==
  \E cfg \in ConfigsDoc :
    \E indexErr \in CreateManyErrors(cfg) :
       /\ CanStart("insertdoc")
       /\ LET coll == IF cfg.DropDb THEN {} ELSE collection
              ids  == FreshIDs(nextId, cfg.DocCount)
          IN  LaunchWith("insertdoc", cfg, coll, ids,
                         FillPartitions(MakePartitions(cfg.Threads), ids, 0, cfg.Threads),
                         nextId + cfg.DocCount,
                         IF indexErr THEN "index" ELSE "none")
       /\ FixedCountFrame

\* testType "insertdoc" with DropDb and a failed Drop: log.Fatalf.
SetupFatalDoc ==
  \E cfg \in ConfigsDoc :
       /\ CanStart("insertdoc")
       /\ cfg.DropDb
       /\ pc' = AfterSetupError
       /\ setupErr' = "drop"
       /\ records' = <<>>
       /\ creates' = 0
       /\ dropCalls' = DropCallsOf("insertdoc", cfg.DropDb)
       /\ script' = Tail(script)
       /\ testType' = "insertdoc"
       /\ config' = cfg
       /\ docIDs' = <<>>
       /\ partitions' = MakePartitions(cfg.Threads)
       /\ idx' = [w \in 0 .. (cfg.Threads - 1) |-> 0]
       /\ targeted' = [w \in 0 .. (cfg.Threads - 1) |-> {}]
       /\ insertRate' = 0
       /\ ticks' = <<>>
       /\ final' = -1
       /\ stats' = NoStats
       /\ extDeleted' = {}
       /\ prev' = RunSummary
       /\ collAtStart' = collection
       /\ UNCHANGED <<collection, nextId, files>>
       /\ FixedCountFrame

\* case "insertdoc": doc = docGen.GenerateComplex(i), InsertOne.
InsertDoc(w) ==
  /\ HasItem(w)
  /\ testType = "insertdoc"
  /\ \E err \in CallErrors :
       /\ idx' = [idx EXCEPT ![w] = @ + 1]
       /\ collection' = IF err THEN collection ELSE InsertOne(collection, nextId)
       /\ nextId' = IF err THEN nextId ELSE nextId + 1
       /\ stats' = Counted("InsertOne", err, FALSE, MarksOnReturn(err))
       /\ insertRate' = IF MarksOnReturn(err) THEN insertRate + 1 ELSE insertRate
       /\ UNCHANGED targeted
  /\ Frame

InitDoc == InitWith({<<"insertdoc">>}) /\ RaceIdle /\ DurIdle /\ FetchIdle /\ ExtraIdle

NextDoc ==
  \/ StartInsertDoc
  \/ SetupFatalDoc
  \/ \E w \in Workers : InsertDoc(w)
  \/ Tick
  \/ Join
  \/ RecordFinal
  \/ SaveCSV

SpecDoc == InitDoc /\ [][NextDoc]_vars

\* ------------------------------------------- the range-partitioned run
\* threadDocCount := docCount / threads
ThreadDocCount(docCount, threads) == docCount \div threads

\* docID := int64(threadID*threadDocCount + j)
ThreadDocID(threadID, threadDocCount, j) == threadID * threadDocCount + j

\* for j := 0; j < threadDocCount; j++: the ids of one worker in loop order.
RangeIDs(threadID, threadDocCount) ==
  [j \in 1 .. threadDocCount |-> ThreadDocID(threadID, threadDocCount, j - 1)]

\* main with -type insert or update: an insert run drops the collection (this
\* main has no drop flag), then the meter, the ticker, wg.Add(threads) and one
\* goroutine per thread id.  A failed Drop ends the process before any id
\* is computed.
RangeStart ==
  /\ \E tt \in {"insert", "update"}, threads \in 1 .. MaxThreads,
        docCount \in 0 .. MaxDocCount :
       /\ CanStart(tt)
       /\ Launch(tt,
                 [Threads |-> threads, DocCount |-> docCount, DropDb |-> tt = "insert"],
                 IF tt = "insert" THEN {} ELSE collection,
                 <<>>,
                 [w \in 0 .. (threads - 1) |->
                    RangeIDs(w, ThreadDocCount(docCount, threads))],
                 nextId)
  /\ FixedCountFrame

\* One iteration of a worker's loop: InsertOne of the document with _id docID,
\* or UpdateOne with the filter _id = docID; Mark(1) if err == nil.
RangeCall(w) ==
  /\ HasItem(w)
  /\ testType \in {"insert", "update"}
  /\ \E err \in CallErrors :
       LET docID == ThreadDocID(w, ThreadDocCount(config.DocCount, config.Threads),
                                idx[w])
       IN  /\ idx' = [idx EXCEPT ![w] = @ + 1]
           /\ collection' =
                IF err THEN collection
                ELSE IF testType = "insert" THEN InsertOne(collection, docID)
                ELSE UpdateOne(collection, docID, FALSE)
           /\ stats' = Counted(IF testType = "insert" THEN "InsertOne" ELSE "UpdateOne",
                               err, FALSE, MarksOnReturn(err))
           /\ insertRate' = IF MarksOnReturn(err) THEN insertRate + 1 ELSE insertRate
           /\ targeted' = [targeted EXCEPT ![w] = @ \cup {docID}]
           /\ UNCHANGED nextId
  /\ Frame

InitRange ==
  InitWith({<<"insert">>, <<"update">>}) /\ RaceIdle /\ DurIdle /\ FetchIdle /\ ExtraIdle

\* The reporting goroutine and the CSV file do not touch the ids and are left
\* out: the run is followed up to the return of wg.Wait().
NextRange ==
  \/ RangeStart
  \/ \E w \in Workers : RangeCall(w)
  \/ Join

SpecRange == InitRange /\ [][NextRange]_vars

\* ------------------------------------------------------ the find run
\* options.Find().SetLimit(10)
FindLimit == 10

\* How a find can end: the Find call returns an error, the cursor reports an
\* error after the page was read, or neither.
FindOutcomes == IF stats.err < MaxErrors THEN {"ok", "find", "cursor"} ELSE {"ok"}

\* case "finddoc": after a failed Find the worker continues with its next
\* item; otherwise the page is read, cursor.Err is logged, and
\* insertRate.Mark(1) follows unconditionally.
MarksOnFind(outcome) == outcome # "find"

\* testType "finddoc": no Drop, no fetch, docCount fresh ids dealt round-robin
\* as work items, and the workers.
StartFindDoc ==
  /\ CanStart("finddoc")
  /\ \E cfg \in Configs :
       LET ids == FreshIDs(nextId, cfg.DocCount)
       IN  Launch("finddoc", cfg, collection, ids,
                  FillPartitions(MakePartitions(cfg.Threads), ids, 0, cfg.Threads),
                  nextId + cfg.DocCount)
  /\ FixedCountFrame

\* case "finddoc": Find(filter, SetLimit(10)) and the loop over the page of n
\* rows; the collection is not changed.
FindDoc(w) ==
  /\ HasItem(w)
  /\ testType = "finddoc"
  /\ \E outcome \in FindOutcomes :
       \E n \in 0 .. Min(FindLimit, Cardinality(collection)) :
         /\ idx' = [idx EXCEPT ![w] = @ + 1]
         /\ stats' = [Counted("Find", outcome # "ok", FALSE, MarksOnFind(outcome))
                        EXCEPT !.rows = IF outcome = "find" THEN @ ELSE @ + n]
         /\ insertRate' = IF MarksOnFind(outcome) THEN insertRate + 1 ELSE insertRate
         /\ UNCHANGED <<collection, nextId, targeted>>
  /\ Frame

InitFind == InitWith({<<"finddoc">>}) /\ RaceIdle /\ DurIdle /\ FetchIdle /\ ExtraIdle

NextFind ==
  \/ StartFindDoc
  \/ \E w \in Workers : FindDoc(w)
  \/ Tick
  \/ Join
  \/ RecordFinal
  \/ SaveCSV

SpecFind == InitFind /\ [][NextFind]_vars

\* --------------------------------- fetchSampledDocIDs, ordered batches
\* The branch of fetchSampledDocIDs for testType "delete" on a collection whose
\* estimate is above the small-collection limit, with the consumers of the key
\* channel deleting what they receive.  The sizes are scaled down: the limit
\* (1000 in the code) is SmallLimit, the batch size (400000) is drawn from
\* 1 .. MaxBatchSize, the channel buffer (40000) is ChanCap.

\* EstimatedDocumentCount reads the collection's metadata: the count of all
\* documents, which may be off by some documents in either direction.
Estimates(coll) ==
  {n \in (Cardinality(coll) - MaxEstimateOff) .. (Cardinality(coll) + MaxEstimateOff) :
     n > SmallLimit}

\* The filter of a round without the keyset condition.
KeysetFilterNone(coll, last) == coll

\* filter := bson.M{}; if !lastID.IsZero() { filter["_id"] = {"$gt": lastID} }:
\* $gt against an ObjectID matches ObjectID keys only.
KeysetFilter(coll, last) ==
  IF last = 0 THEN coll ELSE {k \in coll : IsObjectID(k) /\ k > last}

\* Find(filter, SetSort(_id ascending), SetLimit(size)): numbers sort before
\* ObjectIDs.
FindOrdered(coll, last, size) ==
  LET found == SortedSeq(KeysetFilter(coll, last))
  IN  SubSeq(found, 1, Min(size, Len(found)))

\* What a step of the fetch or of its consumers leaves alone.
FetchFrame ==
  UNCHANGED <<nextId, script, pc, testType, config, docIDs, partitions, idx,
              insertRate, ticks, final, stats, targeted, prev, setupErr,
              records, files, creates, dropCalls, raceVars, durVars, extraVars>>

\* estimatedCount, err := EstimatedDocumentCount(); batchSize, totalFetched,
\* lastID of the ordered-batch branch.
FetchStart ==
  /\ fpc = "idle"
  /\ \E n \in Estimates(collection), b \in 1 .. MaxBatchSize :
       /\ estimatedCount' = n
       /\ batchSize' = b
  /\ totalFetched' = 0
  /\ lastID' = 0
  /\ rounds' = 0
  /\ fpc' = "loop"
  /\ collAtStart' = collection
  /\ UNCHANGED <<collection, extDeleted, cursor, docIDChannel, emitted>>
  /\ FetchFrame

\* The size of a round that always asks for a whole batch.
RoundSizeFull(batch, remaining) == batch

\* size := batchSize; if remaining < batchSize { size = remaining }
RoundSize(batch, remaining) == IF remaining < batch THEN remaining ELSE batch

\* for totalFetched < int(estimatedCount) { size := min(batchSize, remaining);
\* cursor, err := collection.Find(...) }
FetchFind ==
  /\ fpc = "loop"
  /\ totalFetched < estimatedCount
  /\ rounds < MaxRounds
  /\ cursor' = FindOrdered(collection, lastID,
                           RoundSize(batchSize, estimatedCount - totalFetched))
  /\ rounds' = rounds + 1
  /\ fpc' = "scan"
  /\ UNCHANGED <<collection, collAtStart, extDeleted, estimatedCount, batchSize,
                 totalFetched, lastID, docIDChannel, emitted>>
  /\ FetchFrame

\* cursor.Next with a document whose _id decodes: docIDChannel <- result.ID,
\* lastID = result.ID, totalFetched++.  The send blocks while the buffer is full.
\* A document another client deleted after the Find may still be delivered.
FetchSend ==
  /\ fpc = "scan"
  /\ cursor # <<>>
  /\ IsObjectID(Head(cursor))
  /\ Len(docIDChannel) < ChanCap
  /\ docIDChannel' = Append(docIDChannel, Head(cursor))
  /\ emitted' = Append(emitted, Head(cursor))
  /\ lastID' = Head(cursor)
  /\ totalFetched' = totalFetched + 1
  /\ cursor' = Tail(cursor)
  /\ UNCHANGED <<collection, collAtStart, extDeleted, estimatedCount, batchSize,
                 rounds, fpc>>
  /\ FetchFrame

\* cursor.Next with a document that is not delivered as a key: its _id is no
\* ObjectID (cursor.Decode fails, continue), or it was deleted after the Find
\* and the cursor passes over it.
FetchSkip ==
  /\ fpc = "scan"
  /\ cursor # <<>>
  /\ ~IsObjectID(Head(cursor)) \/ Head(cursor) \notin collection
  /\ cursor' = Tail(cursor)
  /\ UNCHANGED <<collection, collAtStart, extDeleted, estimatedCount, batchSize,
                 totalFetched, lastID, docIDChannel, emitted, rounds, fpc>>
  /\ FetchFrame

\* cursor.Next returns false: cursor.Err is logged, the cursor is closed, and
\* the loop condition is evaluated again.
FetchEndRound ==
  /\ fpc = "scan"
  /\ cursor = <<>>
  /\ fpc' = "loop"
  /\ UNCHANGED <<collection, collAtStart, extDeleted, estimatedCount, batchSize,
                 totalFetched, lastID, cursor, docIDChannel, emitted, rounds>>
  /\ FetchFrame

\* The loop condition fails: close(docIDChannel).
FetchClose ==
  /\ fpc = "loop"
  /\ ~(totalFetched < estimatedCount)
  /\ fpc' = "closed"
  /\ UNCHANGED <<collection, collAtStart, extDeleted, estimatedCount, batchSize,
                 totalFetched, lastID, cursor, docIDChannel, emitted, rounds>>
  /\ FetchFrame

\* A consumer receives the next key of the channel and deletes its document.
ReceiveAndDelete ==
  /\ docIDChannel # <<>>
  /\ collection' = DeleteOne(collection, Head(docIDChannel))
  /\ docIDChannel' = Tail(docIDChannel)
  /\ UNCHANGED <<collAtStart, extDeleted, estimatedCount, batchSize, totalFetched,
                 lastID, cursor, emitted, rounds, fpc>>
  /\ FetchFrame

\* Another client of the store removes a document the fetch has not sent yet.
OtherClientDeletes ==
  /\ fpc \in {"loop", "scan"}
  /\ Cardinality(extDeleted) < MaxExternal
  /\ \E k \in collection \ Keys(emitted) :
       /\ collection' = collection \ {k}
       /\ extDeleted' = extDeleted \cup {k}
  /\ UNCHANGED <<collAtStart, estimatedCount, batchSize, totalFetched, lastID,
                 cursor, docIDChannel, emitted, rounds, fpc>>
  /\ FetchFrame

InitFetch == InitWith({<<>>}) /\ RaceIdle /\ DurIdle /\ FetchIdle /\ ExtraIdle

NextFetch ==
  \/ FetchStart
  \/ FetchFind
  \/ FetchSend
  \/ FetchSkip
  \/ FetchEndRound
  \/ FetchClose
  \/ ReceiveAndDelete
  \/ OtherClientDeletes

SpecFetch == InitFetch /\ [][NextFetch]_vars

\* --------------------------------- fetchSampledDocIDs, random batches
\* A round of the random-batch branch: Aggregate([{$sample: {size: size}}]).
\* One sample holds a document at most once; its order is arbitrary, and the
\* order within a round has no effect on the counters.
FetchSample ==
  /\ fpc = "loop"
  /\ totalFetched < estimatedCount
  /\ rounds < MaxRounds
  /\ \E S \in SampleDocs(collection,
                          RoundSize(batchSize, estimatedCount - totalFetched)) :
       cursor' = SortedSeq(S)
  /\ rounds' = rounds + 1
  /\ fpc' = "scan"
  /\ UNCHANGED <<collection, collAtStart, extDeleted, estimatedCount, batchSize,
                 totalFetched, lastID, docIDChannel, emitted>>
  /\ FetchFrame

\* A consumer receives the next key of the channel and updates its document,
\* which stays in the collection.
ReceiveAndUpdate ==
  /\ docIDChannel # <<>>
  /\ collection' = UpdateOne(collection, Head(docIDChannel), FALSE)
  /\ docIDChannel' = Tail(docIDChannel)
  /\ UNCHANGED <<collAtStart, extDeleted, estimatedCount, batchSize, totalFetched,
                 lastID, cursor, emitted, rounds, fpc>>
  /\ FetchFrame

NextSample ==
  \/ FetchStart
  \/ FetchSample
  \/ FetchSend
  \/ FetchSkip
  \/ FetchEndRound
  \/ FetchClose
  \/ ReceiveAndUpdate

SpecSample == InitFetch /\ [][NextSample]_vars

\* ------------------------------------- DurationTestingStrategy.runTest
\* TestingConfig of a Duration run: main picks the strategy when duration > 0.
DurConfigs == [Threads : 1 .. MaxThreads, Duration : 1 .. MaxDuration, DropDb : BOOLEAN]

\* records of a Duration run starts with its own six-column header.
DurationHeaderRow ==
  [src |-> "header",
   cells |-> <<"timestamp", "count", "mean_rate", "m1_rate", "m5_rate", "m15_rate">>]

\* fetchDocumentIDs(collection) of the Duration strategy: one unlimited Find,
\* every ObjectID key.
fetchAllDocumentIDs(coll) == DecodeIDs(coll)

\* time.Now().Before(endTime), with the deadline itself still counted as before.
BeforeOrAt(t, end) == t <= end

\* time.Now().Before(endTime)
Before(t, end) == t < end

\* The empty partition is passed over without wg.Done().
EmptyPartitionForgotten == "blocked"

\* len(partitions[i]) == 0: wg.Done() and continue, no goroutine is started.
EmptyPartition == "skipped"

\* Every worker draws from all fetched keys.
DurTargetsShared(ids, partition) == Keys(ids)

\* docID := partition[rand.Intn(len(partition))]: the keys a worker may draw.
DurTargets(ids, partition) == Keys(partition)

\* The deadline computed when the workers are about to be launched.
DeadlineFromLaunch(start, launch, duration) == launch + duration

\* endTime := time.Now().Add(config.Duration seconds), the first statement of
\* runTest: start is the clock at entry, launch the clock after the setup.
Deadline(start, launch, duration) == start + duration

\* The Duration workers are launched: endTime, the meter, the header, the
\* ticker, wg.Add(config.Threads), and one goroutine per worker that is not
\* passed over.  The setup (Drop or the key fetch and the partitioning) has
\* taken setupTime seconds since runTest was entered.
DurLaunch(tt, cfg, coll, ids, parts, setupTime) ==
  /\ pc' = "running"
  /\ setupErr' = "none"
  /\ records' = <<DurationHeaderRow>>
  /\ creates' = 0
  /\ dropCalls' = DurDropCalls(tt, cfg.DropDb)
  /\ script' = Tail(script)
  /\ testType' = tt
  /\ config' = cfg
  /\ collection' = coll
  /\ collAtStart' = coll
  /\ docIDs' = ids
  /\ partitions' = parts
  /\ idx' = [w \in 0 .. (cfg.Threads - 1) |-> 0]
  /\ targeted' = [w \in 0 .. (cfg.Threads - 1) |-> {}]
  /\ insertRate' = 0
  /\ ticks' = <<>>
  /\ final' = -1
  /\ stats' = NoStats
  /\ extDeleted' = {}
  /\ prev' = RunSummary
  /\ endTime' = Deadline(now, now + setupTime, cfg.Duration)
  /\ now' = now + setupTime
  /\ wpc' = [w \in 0 .. (cfg.Threads - 1) |->
               IF tt = "update" /\ Len(parts[w]) = 0 THEN EmptyPartition ELSE "check"]
  /\ observed' = [w \in 0 .. (cfg.Threads - 1) |-> -1]
  /\ late' = [w \in 0 .. (cfg.Threads - 1) |-> 0]
  /\ UNCHANGED <<nextId, files, raceVars, fetchVars, extraVars>>

\* testType "insert": Drop, no partitions.  The Drop is taken to return at
\* once.
DurStartInsert ==
  /\ CanStart("insert")
  /\ \E cfg \in DurConfigs :
       DurLaunch("insert", cfg,
                 IF DurDrop("insert", cfg.DropDb) THEN {} ELSE collection,
                 <<>>, MakePartitions(cfg.Threads), 0)

\* testType "update": all keys fetched, at least one, dealt round-robin, with
\* a fetch that returns at once.
DurStartUpdate ==
  /\ CanStart("update")
  /\ \E cfg \in DurConfigs :
       LET ids == fetchAllDocumentIDs(collection)
       IN  /\ Len(ids) > 0
           /\ DurLaunch("update", cfg, collection, ids,
                        FillPartitions(MakePartitions(cfg.Threads), ids, 0, cfg.Threads),
                        0)

\* log.Fatalf: Drop failed (insert), fetchDocIDs failed or found no key (update).
DurSetupFatal ==
  \E tt \in {"insert", "update"}, cfg \in DurConfigs :
       /\ CanStart(tt)
       /\ pc' = AfterSetupError
       /\ setupErr' = IF tt = "update" THEN "fetch" ELSE "drop"
       /\ records' = <<DurationHeaderRow>>
       /\ creates' = 0
       /\ dropCalls' = DurDropCalls(tt, cfg.DropDb)
       /\ script' = Tail(script)
       /\ testType' = tt
       /\ config' = cfg
       /\ docIDs' = <<>>
       /\ partitions' = MakePartitions(cfg.Threads)
       /\ idx' = [w \in 0 .. (cfg.Threads - 1) |-> 0]
       /\ targeted' = [w \in 0 .. (cfg.Threads - 1) |-> {}]
       /\ insertRate' = 0
       /\ ticks' = <<>>
       /\ final' = -1
       /\ stats' = NoStats
       /\ extDeleted' = {}
       /\ prev' = RunSummary
       /\ collAtStart' = collection
       /\ endTime' = now + cfg.Duration
       /\ wpc' = [w \in 0 .. (cfg.Threads - 1) |-> "none"]
       /\ observed' = [w \in 0 .. (cfg.Threads - 1) |-> -1]
       /\ late' = [w \in 0 .. (cfg.Threads - 1) |-> 0]
       /\ UNCHANGED <<collection, nextId, files, now, raceVars, fetchVars, extraVars>>

\* Gateway calls the workers have started so far.
DurCalls ==
  stats.ok + stats.err + Cardinality({w \in DOMAIN wpc : wpc[w] = "call"})

\* What a step of a Duration worker leaves alone.
DurFrame ==
  UNCHANGED <<script, pc, testType, config, docIDs, partitions, ticks, final,
              collAtStart, extDeleted, prev, setupErr, records, files, creates, dropCalls,
              now, endTime, raceVars, fetchVars, extraVars>>

\* for time.Now().Before(endTime): the worker reads the clock and either goes on
\* to its next call or leaves the loop (deferred wg.Done()).  Before the
\* deadline the workers get through at most MaxDurCalls calls together.
DurCheck(w) ==
  /\ pc = "running"
  /\ w \in DOMAIN wpc
  /\ wpc[w] = "check"
  /\ DurCalls < MaxDurCalls \/ ~Before(now, endTime)
  /\ observed' = [observed EXCEPT ![w] = now]
  /\ wpc' = [wpc EXCEPT ![w] = IF Before(now, endTime) THEN "call" ELSE "exited"]
  /\ UNCHANGED <<collection, nextId, idx, insertRate, stats, targeted, late>>
  /\ DurFrame

\* The call of a gateway method has returned at time now.
DurReturned(w) ==
  /\ UNCHANGED idx
  /\ wpc' = [wpc EXCEPT ![w] = "check"]
  /\ late' = [late EXCEPT ![w] = IF Before(now, endTime) THEN @ ELSE @ + 1]
  /\ UNCHANGED observed

\* InsertOne without _id, Mark(1) when it returned no error.
DurInsert(w) ==
  /\ pc = "running"
  /\ w \in DOMAIN wpc
  /\ wpc[w] = "call"
  /\ testType = "insert"
  /\ \E err \in CallErrors :
       /\ collection' = IF err THEN collection ELSE InsertOne(collection, nextId)
       /\ nextId' = IF err THEN nextId ELSE nextId + 1
       /\ stats' = Counted("InsertOne", err, FALSE, MarksOnReturn(err))
       /\ insertRate' = IF MarksOnReturn(err) THEN insertRate + 1 ELSE insertRate
       /\ UNCHANGED targeted
  /\ DurReturned(w)
  /\ DurFrame

\* UpdateOne on a key drawn from the worker's partition, Mark(1) when it
\* returned no error.
DurUpdate(w) ==
  /\ pc = "running"
  /\ w \in DOMAIN wpc
  /\ wpc[w] = "call"
  /\ testType = "update"
  /\ \E docID \in DurTargets(docIDs, partitions[w]), err \in CallErrors :
       /\ collection' = IF err THEN collection ELSE UpdateOne(collection, docID, FALSE)
       /\ stats' = Counted("UpdateOne", err, FALSE, MarksOnReturn(err))
       /\ insertRate' = IF MarksOnReturn(err) THEN insertRate + 1 ELSE insertRate
       /\ targeted' = [targeted EXCEPT ![w] = @ \cup {docID}]
       /\ UNCHANGED nextId
  /\ DurReturned(w)
  /\ DurFrame

\* A second passes.  Once the deadline is reached the clock is no longer looked
\* at for its value, only for being at or past the deadline.
ClockTick ==
  /\ pc = "running"
  /\ Before(now, endTime)
  /\ now' = now + 1
  /\ UNCHANGED <<baseVars, raceVars, fetchVars, extraVars, endTime, wpc, observed, late>>

\* wg.Wait() returns: every worker has left its loop or was passed over.
DurJoin ==
  /\ pc = "running"
  /\ \A w \in DOMAIN wpc : wpc[w] \in {"exited", "skipped"}
  /\ pc' = "joined"
  /\ UNCHANGED <<collection, nextId, script, testType, config, docIDs, partitions,
                 idx, insertRate, ticks, final, stats, targeted, collAtStart,
                 extDeleted, prev, setupErr, records, files, creates, dropCalls>>
  /\ FixedCountFrame

InitDur ==
  /\ InitWith({<<"insert">>, <<"update">>})
  /\ RaceIdle
  /\ DurIdle
  /\ FetchIdle
  /\ ExtraIdle

NextDur ==
  \/ DurStartInsert
  \/ DurStartUpdate
  \/ DurSetupFatal
  \/ \E w \in 0 .. (MaxThreads - 1) : DurCheck(w)
  \/ \E w \in 0 .. (MaxThreads - 1) : DurInsert(w)
  \/ \E w \in 0 .. (MaxThreads - 1) : DurUpdate(w)
  \/ ClockTick
  \/ DurJoin
  \/ RecordFinal
  \/ SaveCSV

SpecDur == InitDur /\ [][NextDur]_vars

\* The scheduler runs every goroutine that can take a step, each gateway call
\* returns, and the clock advances.
DurFairness ==
  /\ WF_vars(ClockTick)
  /\ WF_vars(DurJoin)
  /\ \A w \in 0 .. (MaxThreads - 1) :
       WF_vars(DurCheck(w)) /\ WF_vars(DurInsert(w)) /\ WF_vars(DurUpdate(w))

FairSpecDur == InitDur /\ [][NextDur]_vars /\ DurFairness

\* ------------------------------- a Duration update run with a slow fetch
\* Seconds a key fetch can take beyond the longest run duration.
MaxFetchOver == 1

\* testType "update" with a fetch and partitioning that take any time from
\* nothing to longer than the run duration.
DurStartUpdateSlow ==
  /\ CanStart("update")
  /\ \E cfg \in DurConfigs, fetchTime \in 0 .. (MaxDuration + MaxFetchOver) :
       LET ids == fetchAllDocumentIDs(collection)
       IN  /\ Len(ids) > 0
           /\ DurLaunch("update", cfg, collection, ids,
                        FillPartitions(MakePartitions(cfg.Threads), ids, 0, cfg.Threads),
                        fetchTime)

InitSlow ==
  InitWith({<<"update">>}) /\ RaceIdle /\ DurIdle /\ FetchIdle /\ ExtraIdle

NextSlow ==
  \/ DurStartUpdateSlow
  \/ DurSetupFatal
  \/ \E w \in 0 .. (MaxThreads - 1) : DurCheck(w)
  \/ \E w \in 0 .. (MaxThreads - 1) : DurUpdate(w)
  \/ ClockTick
  \/ DurJoin
  \/ RecordFinal
  \/ SaveCSV

\* As DurFairness, and main goes on after wg.Wait() has returned.
SlowFairness ==
  /\ WF_vars(ClockTick)
  /\ WF_vars(DurJoin)
  /\ WF_vars(RecordFinal)
  /\ WF_vars(SaveCSV)
  /\ \A w \in 0 .. (MaxThreads - 1) : WF_vars(DurCheck(w)) /\ WF_vars(DurUpdate(w))

FairSpecSlow == InitSlow /\ [][NextSlow]_vars /\ SlowFairness

\* ----------------------------- the reporting goroutine racing with main
\* records is appended to by the reporting goroutine and by the main goroutine
\* with no synchronisation between them.  records = append(records, r) reads the
\* slice, puts r behind what it read and stores the result, so an append is two
\* steps here and the other goroutine may run in between.

\* What the steps of the two appends leave alone.
RaceFrame ==
  UNCHANGED <<collection, nextId, script, testType, config, docIDs, partitions, idx,
              insertRate, stats, targeted, collAtStart, extDeleted, prev, setupErr,
              files, creates, dropCalls, durVars, fetchVars, extraVars>>

\* A tick arrives before runTest has returned: the goroutine reads the meter,
\* builds its record and reads records.
TickLoad ==
  /\ pc \in {"running", "joined", "appending", "done"}
  /\ tickLocal = NoLocal
  /\ Len(ticks) < MaxTicks
  /\ ticks' = Append(ticks, insertRate)
  /\ tickLocal' = [base |-> records,
                   row |-> Record("tick", Len(ticks) + 1, insertRate)]
  /\ UNCHANGED <<pc, final, records, mainLocal>>
  /\ RaceFrame

\* The goroutine stores the slice with its record appended.
TickStore ==
  /\ pc \in {"running", "joined", "appending", "done"}
  /\ tickLocal # NoLocal
  /\ records' = Append(tickLocal.base, tickLocal.row)
  /\ tickLocal' = NoLocal
  /\ UNCHANGED <<pc, final, ticks, mainLocal>>
  /\ RaceFrame

\* Final metrics recording: main reads the meter, builds the final record and
\* reads records.
RecordFinalLoad ==
  /\ pc = "joined"
  /\ final' = insertRate
  /\ mainLocal' = [base |-> records, row |-> Record("final", Len(ticks), insertRate)]
  /\ pc' = "appending"
  /\ UNCHANGED <<ticks, records, tickLocal>>
  /\ RaceFrame

\* main stores the slice with the final record appended.
RecordFinalStore ==
  /\ pc = "appending"
  /\ records' = Append(mainLocal.base, mainLocal.row)
  /\ mainLocal' = NoLocal
  /\ pc' = "done"
  /\ UNCHANGED <<ticks, final, tickLocal>>
  /\ RaceFrame

InitReport == InitWith({<<"insert">>}) /\ RaceIdle /\ DurIdle /\ FetchIdle /\ ExtraIdle

NextReport ==
  \/ StartInsertOrUpsert
  \/ \E w \in Workers : Insert(w)
  \/ TickLoad
  \/ TickStore
  \/ Join
  \/ RecordFinalLoad
  \/ RecordFinalStore
  \/ SaveCSV

SpecReport == InitReport /\ [][NextReport]_vars

\* ------------------------------------------- the workers' shared variable
\* What a step of an insert worker leaves alone.
ShareFrame ==
  UNCHANGED <<script, pc, testType, config, docIDs, partitions, ticks, final,
              collAtStart, extDeleted, prev, setupErr, records, files, creates, dropCalls,
              raceVars, durVars, fetchVars, assigned, gtags, gauthors, richDoc,
              pipeVars, strategies, qgen>>

\* case "insert", first statement: doc = bson.M{...}. The variable is declared
\* once in runTest and every worker's closure captures it.
InsertAssign(w) ==
  /\ HasItem(w)
  /\ testType = "insert"
  /\ wstep[w] = "gen"
  /\ sharedDoc' = [by |-> w, item |-> idx[w] + 1]
  /\ wstep' = [wstep EXCEPT ![w] = "call"]
  /\ UNCHANGED <<collection, nextId, idx, insertRate, stats, targeted, passed>>
  /\ ShareFrame

\* case "insert", second statement: collection.InsertOne(ctx, doc) with whatever
\* the variable holds now, then the Mark.
InsertShared(w) ==
  /\ HasItem(w)
  /\ testType = "insert"
  /\ wstep[w] = "call"
  /\ InsertCall(w)
  /\ passed' = [passed EXCEPT ![w] = sharedDoc]
  /\ wstep' = [wstep EXCEPT ![w] = "gen"]
  /\ UNCHANGED sharedDoc
  /\ ShareFrame

InitShare == InitWith({<<"insert">>}) /\ RaceIdle /\ DurIdle /\ FetchIdle /\ ExtraIdle

NextShare ==
  \/ StartInsertOrUpsert
  \/ SetupFatal
  \/ \E w \in Workers : InsertAssign(w)
  \/ \E w \in Workers : InsertShared(w)
  \/ Join
  \/ RecordFinal
  \/ SaveCSV

SpecShare == InitShare /\ [][NextShare]_vars

\* ------------------------------------------- materialized partitions
\* The worker goroutines are launched while the partitioning loop is still
\* appending.
WorkersLaunchedEarly == TRUE

\* The worker goroutines are launched by the loop that follows the switch: the
\* partitioning loop has dealt out every fetched key by then.
WorkersLaunched == assigned = Len(docIDs)

\* case "delete", "update": fetchDocIDs has returned, make([][]ObjectID, threads).
FetchReturned ==
  \E tt \in {"update", "delete"}, cfg \in Configs :
    /\ CanStart(tt)
    /\ \E ids \in fetchDocumentIDs(collection, cfg.DocCount, tt) :
         Launch(tt, cfg, collection, ids, MakePartitions(cfg.Threads), nextId)
    /\ FixedCountFrame

\* One iteration of the partitioning loop: the next key for delete, a key
\* drawn from all fetched keys for update, appended to partitions[i%threads].
Assign ==
  /\ pc = "running"
  /\ assigned < Len(docIDs)
  /\ \E j \in (IF testType = "update" THEN RandomIntn(Len(docIDs)) ELSE {assigned}) :
       partitions' = [partitions EXCEPT ![PartitionIndex(assigned, config.Threads)] =
                        Append(@, docIDs[j + 1])]
  /\ assigned' = assigned + 1
  /\ UNCHANGED <<collection, nextId, script, pc, testType, config, docIDs, idx,
                 insertRate, ticks, final, stats, targeted, collAtStart, extDeleted,
                 prev, setupErr, records, files, creates, dropCalls, raceVars, durVars,
                 fetchVars, gtags, gauthors, richDoc, sharedDoc, wstep, passed,
                 pipeVars, strategies, qgen>>

InitPart ==
  /\ InitWith({<<"update">>, <<"delete">>})
  /\ RaceIdle
  /\ DurIdle
  /\ FetchIdle
  /\ ExtraIdle

NextPart ==
  \/ FetchReturned
  \/ SetupFatal
  \/ Assign
  \/ \E w \in Workers : WorkersLaunched /\ Update(w)
  \/ \E w \in Workers : WorkersLaunched /\ Delete(w)
  \/ WorkersLaunched /\ Join
  \/ RecordFinal
  \/ SaveCSV

SpecPart == InitPart /\ [][NextPart]_vars

\* ------------------------------------------------ the streaming pipeline
\* runTest of the channel-based strategy, case "update", "delete": the fetch task
\* sends keys into docIDChannel, the distributor goroutine deals them
\* round-robin into one channel per worker, the workers of
\* runWorkloadWithChannels range over their channels.

\* A send that never waits for room.
HasRoomAlways(ch, cap) == TRUE

\* ch <- id goes through when the buffer of ch has room; with capacity 0 the
\* send waits for a receiver (see DistSend).
HasRoom(ch, cap) == Len(ch) < cap

\* make(chan primitive.ObjectID, docCount/threads)
PartitionCap == config.DocCount \div config.Threads

\* The distributor's closing loop stopping one channel short.
ChannelsToCloseButLast == config.Threads - 1

\* for _, ch := range partitionChannels { close(ch) }
ChannelsToClose == config.Threads

\* A worker leaving its range loop whenever its channel is empty.
RangeEndsWhenEmpty(w) == partitionChannels[w] = <<>>

\* for docID := range partition ends when the channel is closed and drained.
RangeEnds(w) == partitionChannels[w] = <<>> /\ closed[w] > 0

\* What a step of the pipeline leaves alone.
PipeFrame ==
  UNCHANGED <<nextId, script, pc, testType, config, docIDs, partitions, idx, ticks,
              final, targeted, collAtStart, extDeleted, prev, setupErr, records, files,
              creates, dropCalls, raceVars, durVars, estimatedCount, batchSize,
              totalFetched, lastID, cursor, rounds, assigned, gtags, gauthors, richDoc,
              sharedDoc, wstep, passed, strategies, qgen>>

\* The channels are made, go fetchDocIDs(...), go func() { distributor }, and
\* runWorkloadWithChannels starts one worker per channel.
PipeStart ==
  \E tt \in {"update", "delete"}, cfg \in Configs :
    /\ CanStart(tt)
    /\ ~cfg.DropDb
    /\ Launch(tt, cfg, collection, <<>>, MakePartitions(cfg.Threads), nextId)
    /\ docIDChannel' = <<>>
    /\ emitted' = <<>>
    /\ fpc' = "scan"
    /\ dist' = [pc |-> "recv", held |-> 0, i |-> 0, c |-> 0]
    /\ partitionChannels' = [w \in 0 .. (MaxThreads - 1) |-> <<>>]
    /\ closed' = [c \in -1 .. (MaxThreads - 1) |-> 0]
    /\ lateSends' = 0
    /\ wk' = [w \in 0 .. (MaxThreads - 1) |->
                IF w < cfg.Threads THEN [pc |-> "recv", held |-> 0]
                ELSE [pc |-> "idle", held |-> 0]]
    /\ received' = [w \in 0 .. (MaxThreads - 1) |-> <<>>]
    /\ UNCHANGED <<raceVars, durVars, estimatedCount, batchSize, totalFetched, lastID,
                   cursor, rounds, assigned, gtags, gauthors, richDoc, sharedDoc, wstep,
                   passed, strategies, qgen>>

\* The key the fetch task decodes after it has sent n keys: its cursors deliver
\* the ObjectID keys in ascending order, batch after batch.
CursorKey(coll, n) ==
  LET keys == SortedSeq({d \in coll : IsObjectID(d)})
  IN  keys[(n % Len(keys)) + 1]

\* fetchDocIDs, any branch: docIDChannel <- result.ID for the next decoded key.
\* The fetch may end after any number of keys (the estimate it counts up to
\* need not be the number of documents).
PipeSend ==
  /\ pc = "running"
  /\ fpc = "scan"
  /\ Len(emitted) < MaxEmit
  /\ \E d \in collAtStart : IsObjectID(d)
  /\ HasRoom(docIDChannel, ChanCap)
  /\ docIDChannel' = Append(docIDChannel, CursorKey(collAtStart, Len(emitted)))
  /\ emitted' = Append(emitted, CursorKey(collAtStart, Len(emitted)))
  /\ lateSends' = IF closed[-1] > 0 THEN lateSends + 1 ELSE lateSends
  /\ UNCHANGED <<collection, insertRate, stats, fpc, dist, partitionChannels, closed,
                 wk, received>>
  /\ PipeFrame

\* fetchDocIDs, last statement: close(docIDChannel).
PipeClose ==
  /\ pc = "running"
  /\ fpc = "scan"
  /\ fpc' = "closed"
  /\ closed' = [closed EXCEPT ![-1] = @ + 1]
  /\ UNCHANGED <<collection, insertRate, stats, docIDChannel, emitted, dist,
                 partitionChannels, lateSends, wk, received>>
  /\ PipeFrame

\* Distributor: for id := range docIDChannel receives the next key.
DistReceive ==
  /\ dist.pc = "recv"
  /\ docIDChannel # <<>>
  /\ dist' = [dist EXCEPT !.pc = "send", !.held = Head(docIDChannel)]
  /\ docIDChannel' = Tail(docIDChannel)
  /\ UNCHANGED <<collection, insertRate, stats, emitted, fpc, partitionChannels, closed,
                 lateSends, wk, received>>
  /\ PipeFrame

\* Distributor: partitionChannels[i%threads] <- id; i++.  With a buffer the key
\* is queued when there is room; with capacity 0 it is handed to the worker
\* that is waiting in its range loop.
DistSend ==
  /\ dist.pc = "send"
  /\ LET w == PartitionIndex(dist.i, config.Threads)
     IN  /\ \/ /\ PartitionCap > 0
               /\ HasRoom(partitionChannels[w], PartitionCap)
               /\ partitionChannels' = [partitionChannels EXCEPT ![w] = Append(@, dist.held)]
               /\ UNCHANGED wk
            \/ /\ PartitionCap = 0
               /\ wk[w].pc = "recv"
               /\ wk' = [wk EXCEPT ![w] = [pc |-> "call", held |-> dist.held]]
               /\ UNCHANGED partitionChannels
         /\ lateSends' = IF closed[w] > 0 THEN lateSends + 1 ELSE lateSends
  /\ dist' = [dist EXCEPT !.pc = "recv", !.held = 0, !.i = @ + 1]
  /\ UNCHANGED <<collection, insertRate, stats, docIDChannel, emitted, fpc, closed,
                 received>>
  /\ PipeFrame

\* Distributor: the range over docIDChannel has ended (closed and drained), and
\* the closing loop closes the next partition channel.
DistClose ==
  /\ \/ dist.pc = "recv" /\ docIDChannel = <<>> /\ closed[-1] > 0
     \/ dist.pc = "closing"
  /\ dist.c < ChannelsToClose
  /\ closed' = [closed EXCEPT ![dist.c] = @ + 1]
  /\ dist' = [dist EXCEPT !.pc = "closing", !.c = @ + 1]
  /\ UNCHANGED <<collection, insertRate, stats, docIDChannel, emitted, fpc,
                 partitionChannels, lateSends, wk, received>>
  /\ PipeFrame

\* Worker: for docID := range partition receives a buffered key.
WorkerReceive(w) ==
  /\ wk[w].pc = "recv"
  /\ partitionChannels[w] # <<>>
  /\ wk' = [wk EXCEPT ![w] = [pc |-> "call", held |-> Head(partitionChannels[w])]]
  /\ partitionChannels' = [partitionChannels EXCEPT ![w] = Tail(@)]
  /\ UNCHANGED <<collection, insertRate, stats, docIDChannel, emitted, fpc, dist, closed,
                 lateSends, received>>
  /\ PipeFrame

\* Worker: one UpdateOne or DeleteOne for the key in hand, and the Mark.
WorkerCall(w) ==
  /\ wk[w].pc = "call"
  /\ \E err \in CallErrors :
       LET docID == wk[w].held
           n == IF err THEN 0 ELSE DeletedCount(collection, docID)
       IN  IF testType = "delete"
             THEN /\ collection' = IF err THEN collection ELSE DeleteOne(collection, docID)
                  /\ stats' = [Counted("DeleteOne", err, FALSE, MarksOnDelete(err, n)) EXCEPT
                                 !.deleted = @ + n,
                                 !.nomatch = IF ~err /\ n = 0 THEN @ + 1 ELSE @]
                  /\ insertRate' = IF MarksOnDelete(err, n) THEN insertRate + 1 ELSE insertRate
             ELSE /\ collection' = IF err THEN collection
                                   ELSE UpdateOne(collection, docID, FALSE)
                  /\ stats' = Counted("UpdateOne", err, FALSE, MarksOnReturn(err))
                  /\ insertRate' = IF MarksOnReturn(err) THEN insertRate + 1 ELSE insertRate
  /\ received' = [received EXCEPT ![w] = Append(@, wk[w].held)]
  /\ wk' = [wk EXCEPT ![w] = [pc |-> "recv", held |-> 0]]
  /\ UNCHANGED <<docIDChannel, emitted, fpc, dist, partitionChannels, closed, lateSends>>
  /\ PipeFrame

\* Worker: the range loop ends, the deferred wg.Done() runs.
WorkerExit(w) ==
  /\ wk[w].pc = "recv"
  /\ RangeEnds(w)
  /\ wk' = [wk EXCEPT ![w].pc = "exited"]
  /\ UNCHANGED <<collection, insertRate, stats, docIDChannel, emitted, fpc, dist,
                 partitionChannels, closed, lateSends, received>>
  /\ PipeFrame

\* wg.Wait() of runWorkloadWithChannels returns: every worker has exited.
PipeJoin ==
  /\ \A w \in Workers : wk[w].pc = "exited"
  /\ Join

InitPipe ==
  /\ InitWith({<<"update">>, <<"delete">>})
  /\ RaceIdle
  /\ DurIdle
  /\ FetchIdle
  /\ ExtraIdle

NextPipe ==
  \/ PipeStart
  \/ PipeSend
  \/ PipeClose
  \/ DistReceive
  \/ DistSend
  \/ DistClose
  \/ \E w \in Workers : WorkerReceive(w)
  \/ \E w \in Workers : WorkerCall(w)
  \/ \E w \in Workers : WorkerExit(w)
  \/ PipeJoin
  \/ RecordFinal
  \/ SaveCSV

SpecPipe == InitPipe /\ [][NextPipe]_vars

\* The Go scheduler runs every goroutine that can take a step: the distributor
\* and each worker are goroutines of their own, and the main goroutine goes on
\* after wg.Wait().  Nothing is assumed of the fetch task.
PipeFairness ==
  /\ WF_vars(DistReceive)
  /\ WF_vars(DistSend)
  /\ WF_vars(DistClose)
  /\ \A w \in 0 .. (MaxThreads - 1) :
       WF_vars(WorkerReceive(w)) /\ WF_vars(WorkerCall(w)) /\ WF_vars(WorkerExit(w))
  /\ WF_vars(PipeJoin)

FairSpecPipe == InitPipe /\ [][NextPipe]_vars /\ PipeFairness

\* ------------------------------------------- the choice of the fetch strategy
\* FetchStrategy with estimatedCount < 1000 as the test for a small collection.
FetchStrategyBelow(estimate, tt) ==
  IF estimate < SmallLimit THEN "scan"
  ELSE IF tt = "delete" THEN "keyset"
  ELSE "sample"

\* if estimatedCount <= 1000 {...} else if testType == "delete" {...} else {...}
\* (SmallLimit stands for the 1000).
FetchStrategy(estimate, tt) ==
  IF estimate <= SmallLimit THEN "scan"
  ELSE IF tt = "delete" THEN "keyset"
  ELSE "sample"

\* fetchSampledDocIDs(collection, docIDChannel, testType) is entered and
\* EstimatedDocumentCount has returned.
PickEstimate ==
  /\ fpc = "idle"
  /\ \E tt \in TestTypes, b \in 1 .. MaxBatchSize,
        n \in (Cardinality(collection) - MaxEstimateOff) ..
                (Cardinality(collection) + MaxEstimateOff) :
       /\ n >= 0
       /\ testType' = tt
       /\ estimatedCount' = n
       /\ batchSize' = b
  /\ fpc' = "picked"
  /\ UNCHANGED <<collection, nextId, script, pc, config, docIDs, partitions, idx,
                 insertRate, ticks, final, stats, targeted, collAtStart, extDeleted,
                 prev, setupErr, records, files, creates, dropCalls, raceVars, durVars,
                 totalFetched, lastID, cursor, docIDChannel, emitted, rounds, extraVars>>

\* The branch taken issues its first call: Find(bson.M{}) for the full scan,
\* Find with sort and limit for the ordered batches, Aggregate($sample) for the
\* random batches.
PickRun ==
  /\ fpc = "picked"
  /\ LET strategy == FetchStrategy(estimatedCount, testType)
         size == Min(batchSize, estimatedCount)
     IN  /\ strategies' = strategies \cup {strategy}
         /\ cursor' \in
              CASE strategy = "scan" -> {SortedSeq(collection)}
                [] strategy = "keyset" -> {FindOrdered(collection, 0, size)}
                [] OTHER -> {SortedSeq(S) : S \in SampleDocs(collection, size)}
  /\ rounds' = rounds + 1
  /\ fpc' = "scan"
  /\ UNCHANGED <<baseVars, raceVars, durVars, estimatedCount, batchSize, totalFetched,
                 lastID, docIDChannel, emitted, assigned, gtags, gauthors, richDoc,
                 sharedDoc, wstep, passed, pipeVars, qgen>>

InitPick == InitWith({<<>>}) /\ RaceIdle /\ DurIdle /\ FetchIdle /\ ExtraIdle

NextPick == PickEstimate \/ PickRun

SpecPick == InitPick /\ [][NextPick]_vars

\* ------------------------------------------------- the document generator
\* GenerateComplex: both pools are shuffled in place, the document's tags and
\* co_authors are the slices list[:n] of the pools' own arrays, and the content
\* is a text of 2000 + Intn(3000) bytes (ContentMin + Intn(ContentSpan) here).
GenerateComplex ==
  \E nt \in Intn(TagsSpan), nc \in Intn(CoAuthorsSpan), cl \in Intn(ContentSpan) :
    \E tags \in Shuffle(gtags), authors \in Shuffle(gauthors) :
      \E content \in generateLoremIpsum(ContentMin + cl) :
        /\ gtags' = tags
        /\ gauthors' = authors
        /\ richDoc' = [made |-> TRUE, numTags |-> nt + MinTags,
                       numCoAuthors |-> nc + MinCoAuthors, content |-> content]
        /\ UNCHANGED <<baseVars, raceVars, durVars, fetchVars, assigned, sharedDoc,
                       wstep, passed, pipeVars, strategies, qgen>>

\* doc["tags"]: the first numTags entries of the generator's tag array.
DocTags == SubSeq(gtags, 1, richDoc.numTags)

\* doc["co_authors"]: the first numCoAuthors entries of the author array.
DocCoAuthors == SubSeq(gauthors, 1, richDoc.numCoAuthors)

InitGen ==
  /\ InitWith({<<>>})
  /\ collection = {}
  /\ RaceIdle
  /\ DurIdle
  /\ FetchIdle
  /\ ExtraIdle

NextGen == GenerateComplex

SpecGen == InitGen /\ [][NextGen]_vars

\* ------------------------------------------------------ the query generator
\* Largest configured query type; the types tried are -1 .. MaxQueryType.
MaxQueryType == 6

\* Most Generate calls on one generator.
MaxQueryCalls == 2

\* The filters of the switch in Generate, by the key that tells them apart:
\* author, guest, tags with $elemMatch, timestamp with $gt, $text.
FilterShapes == <<"author", "guest", "tags.$elemMatch", "timestamp.$gt", "$text">>

\* default: return bson.M{}
MatchAll == "{}"

\* The random types when the full-text type is always among them.
RandomTypesAll(useIndex, useIndexFT) == {n + 1 : n \in Intn(5)}

\* if g.useIndex && g.useIndexFT { g.rnd.Intn(5) + 1 } else { g.rnd.Intn(4) + 1 }
RandomTypes(useIndex, useIndexFT) ==
  IF useIndex /\ useIndexFT THEN {n + 1 : n \in Intn(5)} ELSE {n + 1 : n \in Intn(4)}

\* switch queryType { case 1 .. case 5: ...; default: return bson.M{} }
FilterOf(queryType) ==
  IF queryType \in 1 .. Len(FilterShapes) THEN FilterShapes[queryType] ELSE MatchAll

\* QueryGenerator.Generate: the filters one call can return.
Generate(g) ==
  IF g.queryType = 0
    THEN {FilterOf(k) : k \in RandomTypes(g.useIndex, g.useIndexFT)}
    ELSE {FilterOf(g.queryType)}

QueryFrame == UNCHANGED <<baseVars, raceVars, durVars, fetchVars, assigned, gtags,
                          gauthors, richDoc, sharedDoc, wstep, passed, pipeVars,
                          strategies>>

\* NewQueryGenerator(queryType, useIndex, useIndexFT)
NewQueryGenerator ==
  /\ ~qgen.made
  /\ \E k \in -1 .. MaxQueryType, useIndex \in BOOLEAN, useIndexFT \in BOOLEAN :
       qgen' = [queryType |-> k, useIndex |-> useIndex, useIndexFT |-> useIndexFT,
                made |-> TRUE, filters |-> <<>>]
  /\ QueryFrame

\* One call of Generate on the generator; filters keeps what the calls returned.
GenerateCall ==
  /\ qgen.made
  /\ Len(qgen.filters) < MaxQueryCalls
  /\ \E f \in Generate(qgen) : qgen' = [qgen EXCEPT !.filters = Append(@, f)]
  /\ QueryFrame

NextQuery ==
  \/ NewQueryGenerator
  \/ GenerateCall

SpecQuery == InitGen /\ [][NextQuery]_vars

\* ==================================================================== claims
Started == pc \in {"running", "joined", "done", "saved", "crashed"}

Completed == pc \in {"joined", "done", "saved"}

CeilDiv(n, t) == (n + t - 1) \div t

GoodKeys(coll) == {k \in coll : IsObjectID(k)}

\* Total length of the partitions of workers 0..t-1.
RECURSIVE SumLen(_, _)
SumLen(parts, t) == IF t = 0 THEN 0 ELSE Len(parts[t - 1]) + SumLen(parts, t - 1)

\* Total number of items the workers 0..t-1 have taken.
RECURSIVE SumIdx(_, _)
SumIdx(f, t) == IF t = 0 THEN 0 ELSE f[t - 1] + SumIdx(f, t - 1)

\* C1: a FixedCount insert run with any T >= 1 and N >= 0 never issues more than
\* N InsertOne calls, issues no other gateway call, and has issued exactly N
\* InsertOne calls when wg.Wait() has returned.
C1_InsertIssuesExactlyN ==
  (testType = "insert" /\ Started) =>
    /\ stats.InsertOne <= config.DocCount
    /\ stats.UpdateOne = 0
    /\ stats.DeleteOne = 0
    /\ Completed => stats.InsertOne = config.DocCount

\* An insert run of 3 documents over 2 workers (N not divisible by T) is over,
\* one of its calls having failed.
C1_Witness ==
  /\ testType = "insert"
  /\ pc = "done"
  /\ config.Threads = 2
  /\ config.DocCount = 3
  /\ stats.InsertOne = 3
  /\ stats.err = 1

\* C2: dealing a source list of n items over T workers gives T partitions,
\* partition p has floor(n/T) items plus one if p < n mod T (so floor or ceil),
\* the sizes sum to n, and (insert, upsert, delete) the j-th item of partition p
\* is the source item of index p + j*T.
C2_RoundRobinPartitions ==
  Started =>
    LET t == config.Threads
        n == Len(docIDs)
    IN  /\ DOMAIN partitions = 0 .. (t - 1)
        /\ \A p \in 0 .. (t - 1) :
             /\ Len(partitions[p]) = (n \div t) + (IF p < n % t THEN 1 ELSE 0)
             /\ Len(partitions[p]) \in {n \div t, CeilDiv(n, t)}
        /\ SumLen(partitions, t) = n
        /\ testType \in {"insert", "upsert"} => n = config.DocCount
        /\ testType # "update" =>
             \A p \in 0 .. (t - 1) :
               \A j \in 0 .. (Len(partitions[p]) - 1) :
                 partitions[p][j + 1] = docIDs[p + j * t + 1]

\* Three ids have been dealt to the two workers of an upsert run: two to worker
\* 0, one to worker 1.
C2_Witness ==
  /\ testType = "upsert"
  /\ pc = "running"
  /\ config.Threads = 2
  /\ Len(docIDs) = 3
  /\ Len(partitions[0]) = 2
  /\ Len(partitions[1]) = 1

C4_UpsertCompletes ==
  (testType = "upsert" /\ Started) =>
    /\ pc # "crashed"
    /\ Completed => (stats.UpdateOne = config.DocCount /\ stats.upsertOpt = config.DocCount)

\* C5 as stated: in every run the partitions of two different workers share no
\* key, and two different workers never target the same key.
C5_PartitionsDisjoint ==
  Started =>
    \A v, w \in Workers :
      v # w => /\ Keys(partitions[v]) \cap Keys(partitions[w]) = {}
               /\ targeted[v] \cap targeted[w] = {}

\* C5 amended: this holds in insert, delete and upsert runs; in every run a
\* worker targets keys of its own partition only.
C5_PartitionsDisjointButUpdate ==
  Started =>
    /\ \A w \in Workers : targeted[w] \subseteq Keys(partitions[w])
    /\ testType # "update" =>
         \A v, w \in Workers :
           v # w => /\ Keys(partitions[v]) \cap Keys(partitions[w]) = {}
                    /\ targeted[v] \cap targeted[w] = {}

\* Both workers of a delete run have issued a DeleteOne.
C5_Witness ==
  /\ testType = "delete"
  /\ config.Threads = 2
  /\ targeted[0] # {}
  /\ targeted[1] # {}

C7_UpdateKeepsKeys ==
  (testType = "update" /\ Started) => collection = collAtStart \ extDeleted

\* An update run is over in which a worker has targeted a key that another
\* client had removed.
C7_Witness ==
  /\ testType = "update"
  /\ pc = "done"
  /\ stats.ok >= 2
  /\ \E w \in Workers : targeted[w] \cap extDeleted # {}

\* C8: the count of the final record is the number of Mark(1) calls of all the
\* workers, and no per-second record has a greater count.
C8_FinalCountIsMarks ==
  /\ insertRate = stats.marks
  /\ final # -1 =>
       /\ final = stats.marks
       /\ \A i \in 1 .. Len(ticks) : ticks[i] <= final

\* A run of two workers is over, the reporting goroutine having read the meter
\* between two marks.
C8_Witness ==
  /\ pc = "done"
  /\ config.Threads = 2
  /\ final >= 2
  /\ Len(ticks) = 1
  /\ ticks[1] > 0
  /\ ticks[1] < final
  /\ stats.err = 1

\* C9: in insert, update and upsert runs every item a worker has taken has
\* caused exactly one gateway call, the run is never cut short, and the meter
\* counts the calls that returned without error.
C9_OneCallPerItem ==
  (testType \in {"insert", "update", "upsert"} /\ Started) =>
    /\ stats.InsertOne + stats.UpdateOne = SumIdx(idx, config.Threads)
    /\ stats.ok + stats.err = SumIdx(idx, config.Threads)
    /\ insertRate = stats.ok
    /\ pc # "crashed"

\* C10: in a delete run the meter counts the DeleteOne calls that returned no
\* error and a DeletedCount above zero; a call that failed or matched nothing
\* is not counted, and every item taken has caused one call.
C10_DeleteMarksOnlyDeleted ==
  (testType = "delete" /\ Started) =>
    /\ insertRate = stats.deleted
    /\ insertRate = stats.DeleteOne - stats.err - stats.nomatch
    /\ stats.DeleteOne = SumIdx(idx, config.Threads)
    /\ Completed => stats.DeleteOne = Len(docIDs)

\* A delete run of two keys is over in which one DeleteOne removed its document
\* and the other matched nothing, its document having been removed by another
\* client.
C10_Witness ==
  /\ testType = "delete"
  /\ pc = "done"
  /\ stats.nomatch = 1
  /\ stats.deleted = 1
  /\ stats.DeleteOne = 2

\* C11: when the collection drop or the initial key fetch of a run fails, the
\* run is aborted before any worker is started: no gateway call has been issued,
\* no worker has taken an item, the meter is untouched and no result file of the
\* run's operation kind has been created.
C11_SetupFailureAborts ==
  setupErr \in {"drop", "fetch"} =>
    /\ pc = "fatal"
    /\ stats = NoStats
    /\ \A w \in Workers : idx[w] = 0
    /\ insertRate = 0
    /\ creates = 0
    /\ files[testType] = <<>>

\* An insert run whose Drop failed: the documents are still there and the
\* process has exited.
C11_Witness ==
  /\ pc = "fatal"
  /\ setupErr = "drop"
  /\ testType = "insert"
  /\ config.DocCount > 0
  /\ collection # {}

\* C12: when the rich-insert run is asked to create its indexes and creating
\* them fails, the run is aborted before any worker is started and no result
\* file of the run is produced.
C12_IndexFailureAborts ==
  setupErr = "index" =>
    /\ pc = "fatal"
    /\ stats = NoStats
    /\ \A w \in Workers : idx[w] = 0
    /\ creates = 0
    /\ files["insertdoc"] = <<>>

\* The keys sent so far are in strictly ascending order.
Ascending(seq) == \A i, j \in 1 .. Len(seq) : i < j => seq[i] < seq[j]

FetchSpins ==
  /\ fpc = "loop"
  /\ totalFetched < estimatedCount
  /\ \A k \in Keys(FindOrdered(collection, lastID,
                               Min(batchSize, estimatedCount - totalFetched))) :
       ~IsObjectID(k)

\* C14: the ordered-batch fetch over a collection of M keys does ceil(M/batchSize)
\* rounds, never more, then closes the key channel, and is never in a loop that
\* makes no progress, whatever the estimate is and whatever the scans deliver.
C14_FetchTerminatesInRounds ==
  /\ rounds <= CeilDiv(Cardinality(collAtStart), batchSize)
  /\ fpc = "closed" => rounds = CeilDiv(Cardinality(collAtStart), batchSize)
  /\ ~FetchSpins

\* C15: every Duration run that has started its workers (insert or update)
\* comes to the join: provided the calls return and the clock advances, each
\* worker observes the deadline and leaves its loop, a worker with an empty
\* partition is passed over and counted as done, and wg.Wait() returns.
C15_DurationTerminates ==
  (pc = "running") ~>
     (/\ pc = "joined"
      /\ \A w \in DOMAIN wpc :
           \/ wpc[w] = "skipped" /\ Len(partitions[w]) = 0
           \/ wpc[w] = "exited" /\ ~Before(observed[w], endTime))

\* An update run with two workers and one fetched key has been joined: worker 0
\* made a call and left at the deadline, worker 1 was passed over.
C15_Witness ==
  /\ pc = "joined"
  /\ testType = "update"
  /\ config.Threads = 2
  /\ Len(docIDs) = 1
  /\ wpc = [w \in 0 .. 1 |-> IF w = 0 THEN "exited" ELSE "skipped"]
  /\ targeted[0] # {}

\* Calls that were started before the deadline and returned at or after it.
RECURSIVE SumLate(_, _)
SumLate(f, t) == IF t = 0 THEN 0 ELSE f[t - 1] + SumLate(f, t - 1)

\* C16: in a Duration run a worker is about to issue a gateway call only when
\* its last look at the clock read a time strictly before the deadline; a worker
\* that has read the deadline as reached has left its loop and stays out of it;
\* every call that returns belongs to a worker that had read a time before the
\* deadline just before; and at most one call per worker, at most Threads calls
\* in total, return at or after the deadline.
C16_DeadlineDiscipline ==
  /\ [](\A w \in DOMAIN wpc :
          /\ wpc[w] = "call" => observed[w] >= 0 /\ observed[w] < endTime
          /\ wpc[w] = "exited" => observed[w] >= endTime
          /\ late[w] <= 1)
  /\ [](pc = "running" => SumLate(late, config.Threads) <= config.Threads)
  /\ [][/\ \A w \in DOMAIN wpc :
             wpc[w] = "exited" => w \in DOMAIN wpc' /\ wpc'[w] = "exited"
        /\ stats'.ok + stats'.err > stats.ok + stats.err =>
             \E w \in DOMAIN wpc :
               /\ wpc[w] = "call"
               /\ observed[w] < endTime
               /\ wpc'[w] = "check"
               /\ stats'.ok + stats'.err = stats.ok + stats.err + 1]_vars

\* Two workers, each with a call that was started before the deadline and
\* returned after it; both have then read the deadline and left.
C16_Witness ==
  /\ config.Threads = 2
  /\ late = [w \in 0 .. 1 |-> 1]
  /\ wpc = [w \in 0 .. 1 |-> "exited"]
  /\ now >= endTime
  /\ stats.ok + stats.err = 2

RowsFrom(seq, src) == {i \in 1 .. Len(seq) : seq[i].src = src}

\* C18: the result file of a run is created and written at most once, and exactly
\* once when the run is over; when it is written every worker has been joined
\* and the final record is in the history that is written; while a worker is
\* running, and after a fatal setup error or a crash, the run has created no file.
C18_WrittenOnceAfterJoin ==
  /\ creates <= 1
  /\ pc = "saved" <=> creates = 1
  /\ creates = 1 =>
       /\ WaitReturns
       /\ final # -1
       /\ RowsFrom(records, "final") # {}
       /\ files[testType] = WriteAll(records)
  /\ (creates = 0 /\ testType \in FileKinds) => files[testType] = <<>>
  /\ (\E w \in Workers : HasItem(w)) => creates = 0

\* A run of two workers is over and its file holds the header, a per-second
\* row and the final row.
C18_Witness ==
  /\ pc = "saved"
  /\ config.Threads = 2
  /\ stats.ok >= 2
  /\ Len(files[testType]) = 3
  /\ RowsFrom(files[testType], "final") = {3}

\* C19: every data row of a written result file, per-second row or final row,
\* has one cell for each of the seven columns of the header.
C19_RowsMatchHeader ==
  \A k \in FileKinds :
    \A i \in 2 .. Len(files[k]) :
      /\ Len(HeaderRow.cells) = 7
      /\ Len(files[k][i].cells) = Len(HeaderRow.cells)

\* Per-second snapshots whose append has been completed.
TicksAppended == Len(ticks) - (IF tickLocal = NoLocal THEN 0 ELSE 1)

\* C20: whatever the interleaving of the reporting goroutine with main, the
\* written file is the header, then one row for every per-second snapshot that
\* was appended, in the order taken, then the final snapshot as the last row:
\* no row is lost, none is duplicated, none follows the final row.
C20_HistoryIsComplete ==
  pc = "saved" =>
    LET f == files[testType]
        k == TicksAppended
    IN  /\ Len(f) = k + 2
        /\ f[1] = HeaderRow
        /\ \A i \in 1 .. k : f[i + 1] = Record("tick", i, ticks[i])
        /\ f[k + 2].src = "final"
        /\ f[k + 2].cells[2] = final

\* C21: in a FixedCount run Drop is called exactly once, before any worker
\* starts, when the kind is insert or upsert and the drop flag is set, and it
\* is never called in any other run (update, delete, or flag not set).
C21_DropOnceBeforeWorkers ==
  (Started \/ pc = "fatal") =>
    /\ dropCalls = IF testType \in {"insert", "upsert"} /\ config.DropDb
                   THEN 1 ELSE 0
    /\ testType \in {"update", "delete"} => dropCalls = 0
    /\ (Started /\ dropCalls = 1) => collAtStart = {}
    /\ (pc = "fatal" /\ dropCalls = 1) => stats = NoStats

\* An insert run with the flag set has dropped a non-empty collection once and
\* its workers are about to start.
C21_Witness ==
  /\ pc = "running"
  /\ testType = "insert"
  /\ config.DropDb
  /\ config.DocCount > 0
  /\ dropCalls = 1
  /\ stats = NoStats
  /\ collection = {}

\* C22: when the drop-before-run flag is false no run, FixedCount or Duration,
\* calls Drop: the collection its first worker sees is the one that was there
\* before the run.
C22_NoDropWithoutFlag ==
  ((Started \/ pc = "fatal") /\ ~config.DropDb) => dropCalls = 0

\* Runs of the sequence that have been started.
RunsStarted == Len(RunAllScript) - Len(script)

\* C23: run-all under FixedCount sizing starts the runs insert, update, delete,
\* upsert in this order, and when a run is under way every run before it has
\* joined its workers, appended its final record and written its result file.
C23_RunAllInOrder ==
  /\ script = SubSeq(RunAllScript, RunsStarted + 1, Len(RunAllScript))
  /\ RunsStarted > 0 => testType = RunAllScript[RunsStarted]
  /\ \A j \in 1 .. (RunsStarted - 1) :
       /\ files[RunAllScript[j]] # <<>>
       /\ files[RunAllScript[j]][Len(files[RunAllScript[j]])].src = "final"
  /\ RunsStarted > 1 => prev.completed /\ prev.testType = RunAllScript[RunsStarted - 1]

\* The last run of the sequence has made an upsert call with an option set, and
\* the three runs before it have left their files.
C23_Witness ==
  /\ script = <<>>
  /\ testType = "upsert"
  /\ pc = "running"
  /\ stats.upsertOpt > 0
  /\ \A k \in {"insert", "update", "delete"} : files[k] # <<>>
  /\ prev.testType = "delete"

\* The elements of a list are pairwise distinct.
Distinct(list) == \A i, j \in 1 .. Len(list) : i # j => list[i] # list[j]

C25_OwnDocumentInserted ==
  \A w \in Workers :
    passed[w] # NoShared => passed[w].by = w /\ passed[w].item = idx[w]

\* C26: in a FixedCount update or delete run on materialized partitions no
\* gateway call is made and no worker has taken an item before the key fetch
\* has returned and every fetched key has been appended to a partition.
C26_PartitionsBeforeWorkers ==
  (testType \in {"update", "delete"} /\ Started) =>
    ((stats # NoStats \/ SumIdx(idx, config.Threads) > 0 \/ Completed) =>
       /\ assigned = Len(docIDs)
       /\ SumLen(partitions, config.Threads) = Len(docIDs))

\* A delete run with two workers has dealt out two keys and made its first call.
C26_Witness ==
  /\ testType = "delete"
  /\ pc = "running"
  /\ config.Threads = 2
  /\ assigned = 2
  /\ Len(partitions[0]) = 1
  /\ Len(partitions[1]) = 1
  /\ stats.DeleteOne = 1

\* Keys lying in the channels of workers 0..t-1.
RECURSIVE Buffered(_)
Buffered(t) == IF t = 0 THEN 0 ELSE Len(partitionChannels[t - 1]) + Buffered(t - 1)

\* Keys the workers 0..t-1 hold for a call that is still to be made.
RECURSIVE InHand(_)
InHand(t) == IF t = 0 THEN 0 ELSE (IF wk[t - 1].pc = "call" THEN 1 ELSE 0) + InHand(t - 1)

\* Keys the workers 0..t-1 have made their call for.
RECURSIVE Handled(_)
Handled(t) == IF t = 0 THEN 0 ELSE Len(received[t - 1]) + Handled(t - 1)

\* C27: in the channel-based update/delete run every key the fetch task has
\* sent is in exactly one place (a channel, the distributor's or a worker's
\* hand, or handled), the k-th key sent is handled by worker (k-1) mod threads
\* only, each handled key stands for exactly one UpdateOne (or DeleteOne) call,
\* and when the workers are joined the K keys sent have caused exactly K calls.
C27_EachKeyOneCall ==
  Started =>
    /\ Len(emitted) = Len(docIDChannel) + (IF dist.pc = "send" THEN 1 ELSE 0)
                        + Buffered(config.Threads) + InHand(config.Threads)
                        + Handled(config.Threads)
    /\ \A w \in Workers :
         \A j \in 1 .. Len(received[w]) :
           /\ (j - 1) * config.Threads + w + 1 <= Len(emitted)
           /\ received[w][j] = emitted[(j - 1) * config.Threads + w + 1]
    /\ stats.UpdateOne + stats.DeleteOne = Handled(config.Threads)
    /\ testType = "update" => stats.DeleteOne = 0
    /\ testType = "delete" => stats.UpdateOne = 0
    /\ stats.InsertOne = 0
    /\ Completed => Handled(config.Threads) = Len(emitted)

\* An update run with two workers is joined after three keys were sent: three
\* UpdateOne calls, two by worker 0 and one by worker 1.
C27_Witness ==
  /\ pc = "joined"
  /\ testType = "update"
  /\ config.Threads = 2
  /\ Len(emitted) = 3
  /\ stats.UpdateOne = 3
  /\ Len(received[0]) = 2
  /\ Len(received[1]) = 1

\* C28: the pipeline closes every channel exactly once and never sends on a
\* closed channel, and once the fetch task has closed docIDChannel the
\* distributor drains it, closes every worker channel, and every worker exits
\* (so wg.Wait() returns), whatever docCount and threads >= 1 are, worker
\* channels of capacity 0 included.
C28_PipelineTerminates ==
  /\ [](Started =>
          /\ \A c \in -1 .. (MaxThreads - 1) : closed[c] <= 1
          /\ lateSends = 0
          /\ \A w \in Workers : closed[w] = 1 => (dist.pc = "closing" /\ closed[-1] = 1)
          /\ Completed =>
               /\ closed[-1] = 1
               /\ \A w \in Workers : closed[w] = 1 /\ wk[w].pc = "exited")
  /\ (pc = "running" /\ fpc = "closed") ~> (pc = "joined")

\* A run with more workers than docCount (unbuffered worker channels) is joined
\* after keys went through, every channel closed once.
C28_Witness ==
  /\ pc = "joined"
  /\ config.Threads = 2
  /\ config.DocCount < config.Threads
  /\ Len(emitted) = 3
  /\ closed[-1] = 1
  /\ closed[0] = 1
  /\ closed[1] = 1
  /\ Handled(2) = 3

\* C29: at every moment the keys fetched and not yet received by a worker are
\* at most the capacity of docIDChannel plus the capacities of the worker
\* channels plus one key in the fetch task's hand and one in the distributor's,
\* and no step sends a key while docIDChannel is full.  (emitted counts a key
\* when its send has gone through, so the key in the fetch task's hand is not
\* in it and the keys sent are bounded by the capacities plus one.)
C29_DeliveryBounded ==
  /\ [](Started =>
          Len(emitted) - Handled(config.Threads) - InHand(config.Threads)
            <= ChanCap + config.Threads * (config.DocCount \div config.Threads) + 1)
  /\ [][Len(docIDChannel) >= ChanCap => emitted' = emitted]_vars

\* docIDChannel is full, the distributor holds a key it cannot send because the
\* buffered worker channel is full as well, and the fetch task has not finished.
C29_Witness ==
  /\ pc = "running"
  /\ fpc = "scan"
  /\ Len(docIDChannel) = ChanCap
  /\ dist.pc = "send"
  /\ config.DocCount \div config.Threads > 0
  /\ Buffered(config.Threads) = config.Threads * (config.DocCount \div config.Threads)

\* C30: the branch of the fetch depends on the estimate and the kind alone: an
\* estimate of at most SmallLimit (1000) gives the unfiltered full scan for
\* every kind, a larger estimate gives the ascending keyset batches for delete
\* and the random sampling for every other kind, and exactly one branch runs.
C30_StrategyByEstimateAndKind ==
  fpc = "scan" =>
    /\ Cardinality(strategies) = 1
    /\ estimatedCount <= SmallLimit => strategies = {"scan"}
    /\ (estimatedCount > SmallLimit /\ testType = "delete") => strategies = {"keyset"}
    /\ (estimatedCount > SmallLimit /\ testType # "delete") => strategies = {"sample"}

\* An estimate just at the limit has led an update fetch to the full scan of a
\* collection that holds more documents than the estimate says.
C30_Witness ==
  /\ fpc = "scan"
  /\ testType = "update"
  /\ estimatedCount = SmallLimit
  /\ Cardinality(collection) > estimatedCount
  /\ strategies = {"scan"}
  /\ Len(cursor) = Cardinality(collection)

\* C31: in the random-batch fetch every key sent is counted, a round never
\* holds more documents than a batch nor more than the estimate still leaves
\* open, so the number of keys sent never exceeds the estimate; the channel is
\* closed only with the count equal to the estimate, and while the count is
\* below the estimate the loop is not left.  Keys may repeat across rounds.
C31_SampleRoundsBounded ==
  /\ totalFetched = Len(emitted)
  /\ fpc # "idle" => totalFetched <= estimatedCount
  /\ fpc = "scan" =>
       /\ Len(cursor) <= batchSize
       /\ totalFetched + Len(cursor) <= estimatedCount
  /\ fpc = "closed" => totalFetched = estimatedCount
  /\ (fpc = "loop" /\ totalFetched < estimatedCount) => ~ENABLED FetchClose
  /\ (fpc = "loop" /\ totalFetched = estimatedCount) => ~ENABLED FetchSample

\* The fetch has closed the channel after several rounds that sent one key
\* twice.
C31_Witness ==
  /\ fpc = "closed"
  /\ rounds >= 2
  /\ totalFetched = estimatedCount
  /\ \E i, j \in 1 .. Len(emitted) : i # j /\ emitted[i] = emitted[j]

\* C32: the key list an update or delete run works on was fetched without an
\* error and holds, in scan order (ascending here), exactly the ObjectID keys
\* of the records the scan delivered: every record whose _id is of another
\* type was skipped and every other one was kept.
C32_MalformedRecordsSkipped ==
  (testType \in {"update", "delete"} /\ Started) =>
    /\ setupErr = "none"
    /\ \A i \in 1 .. Len(docIDs) : docIDs[i] > 0
    /\ \A i \in 1 .. Len(docIDs) - 1 : docIDs[i] < docIDs[i + 1]
    /\ LET all == Cardinality(collAtStart)
           scanned == IF config.DocCount > 0 /\ config.DocCount < all
                        THEN config.DocCount ELSE all
       IN  \E S \in SUBSET collAtStart :
             /\ Cardinality(S) = scanned
             /\ Keys(docIDs) = {k \in S : k > 0}

\* A run was launched on a collection holding a record with a non-ObjectID
\* _id next to well-formed ones, with a scan that covered all of them.
C32_Witness ==
  /\ testType \in {"update", "delete"}
  /\ Started
  /\ \E k \in collAtStart : k < 0
  /\ Len(docIDs) >= 2
  /\ Len(docIDs) < Cardinality(collAtStart)
  /\ config.DocCount >= Cardinality(collAtStart)

\* C33 as stated: whenever the key fetch of a run has failed, in the call or
\* with a cursor error during the iteration, the run is aborted: the process
\* has exited and no worker has issued a call on the keys fetched so far.
C33_FetchFailureFatal ==
  setupErr \in {"fetch", "cursor"} =>
    /\ pc = AfterSetupError
    /\ stats.UpdateOne = 0
    /\ stats.DeleteOne = 0

\* Sum over the workers 0..t-1 of half their partition length, rounded down.
RECURSIVE SumHalf(_, _)
SumHalf(parts, t) ==
  IF t = 0 THEN 0 ELSE (Len(parts[t - 1]) \div 2) + SumHalf(parts, t - 1)

C35_FindMarkedIffSucceeded ==
  testType = "finddoc" =>
    /\ insertRate = stats.ok
    /\ stats.marks = stats.ok
    /\ stats.Find = stats.ok + stats.err

C37_RangesCoverAllDocs ==
  pc = "joined" =>
    /\ \A v, w \in Workers : v # w => targeted[v] \cap targeted[w] = {}
    /\ UNION {targeted[w] : w \in Workers} = 0 .. (config.DocCount - 1)
    /\ stats.InsertOne + stats.UpdateOne = config.DocCount

\* The workers of an update run have been launched with the clock at or past
\* the deadline: the fetch ended no earlier than the deadline.
LateFetch ==
  /\ testType = "update"
  /\ pc = "running"
  /\ now >= endTime
  /\ \A w \in DOMAIN observed : observed[w] = -1

\* C38: in a Duration update run the deadline is the clock at the entry of
\* runTest (0) plus the run duration, whatever time the key fetch took, and is
\* never changed afterwards; no update call is started with the clock at or
\* past the deadline, so a run whose fetch ended at or after the deadline never
\* issues an update call, and such a run goes on to write its result file.
C38_DeadlineFixedBeforeFetch ==
  /\ []((testType = "update" /\ Started) => endTime = config.Duration)
  /\ [][Started => endTime' = endTime]_vars
  /\ [][(Started /\ DurCalls' > DurCalls) => now < endTime]_vars
  /\ [](LateFetch => [](DurCalls = 0))
  /\ (LateFetch ~> (pc = "saved" /\ files["update"] # <<>> /\ stats.UpdateOne = 0))

\* A run whose fetch took longer than the run duration has written its result
\* file without a single update call.
C38_Witness ==
  /\ testType = "update"
  /\ pc = "saved"
  /\ files["update"] # <<>>
  /\ now > endTime
  /\ stats.UpdateOne = 0

\* C39 as stated: a call on the generator leaves the rich document returned
\* before it as it was: its tag list and its co-author list, read after the
\* call, are the lists it had when it was returned, and the tag and author
\* pools hold the same elements as at construction.
C39_EarlierDocumentUnchanged ==
  [][richDoc.made =>
       /\ SubSeq(gtags', 1, richDoc.numTags) = SubSeq(gtags, 1, richDoc.numTags)
       /\ SubSeq(gauthors', 1, richDoc.numCoAuthors) =
            SubSeq(gauthors, 1, richDoc.numCoAuthors)
       /\ Keys(gtags') = Keys(TagPool)
       /\ Keys(gauthors') = Keys(AuthorPool)]_vars

====
